---- MODULE Spec2Model ----
(***************************************************************************)
(* Model of the scrolls indexing pipeline around the MongoDB storage sink  *)
(* (src/src/storage/mongo.rs), the chain-sync start routine                *)
(* (src/src/sources/utils.rs) and the reducers (src/src/reducers).         *)
(*                                                                         *)
(* Optional values (Rust Option, absent BSON fields) are sequences of      *)
(* length 0 (None / absent) or 1 (Some / present).                         *)
(***************************************************************************)
EXTENDS Integers, Sequences, FiniteSets, TLC

VARIABLES
    config,      \* Config.cursor_key : Option<String>
    store,       \* the MongoDB collection: _id -> document
    queue,       \* messages waiting in the sink's input channel
    staging,     \* TwoPhaseInputPort: message received and not yet committed
    ops_count,   \* Worker.ops_count ("storage_ops")
    sinkState,   \* supervisor state of the sink stage
    intersect,   \* crosscut::IntersectConfig of the source
    chain,       \* upstream chain: slot -> id of the fork that made the block
    forks,       \* number of forks upstream went through
    srcState,    \* source stage: "boot", "streaming", "failed"
    srcPos,      \* slot of the last block the source handed downstream
    calls,       \* upstream chain-sync calls made since the source booted
    startResult, \* what define_chainsync_start returned
    crashes,     \* process crashes so far
    fails,       \* error answers of the backend to work() so far
    sent,        \* commands injected directly into the input port
    applyCount,  \* history: (point, index) -> number of successful writes
    rbMarks,     \* history: points of blocks emitted right after a RollBack
    hist,        \* history: commands written successfully by work()
    prev,        \* history: the collection before the last successful write
    lastWork,    \* history: outcome of the last work() / process death
    cur,         \* history: the block the sink is in and its data commands so far
    phase,       \* replay experiment: "setup", "once", "twice", "done"
    cmds,        \* replay experiment: the command list being delivered
    onceStore,   \* replay experiment: the collection after the first pass
    rcfg,        \* reducer: its Config
    rblock,      \* reducer: the block handed to reduce_block
    rout,        \* reducer: the commands sent on the output port
    rrun,        \* reducer: the sends and the result of the running reduce_block
    rres         \* reducer: "off", "idle", "sending", or what reduce_block returned

vars == <<config, store, queue, staging, ops_count, sinkState, intersect,
          chain, forks, srcState, srcPos, calls, startResult, crashes, fails,
          sent, applyCount, rbMarks, hist, prev, lastWork, cur, phase, cmds,
          onceStore, rcfg, rblock, rout, rrun, rres>>

reducerVars == <<rcfg, rblock, rout, rrun, rres>>

\* no reducer takes part
NoRun == [sent |-> <<>>, res |-> "none"]

ReducerOff ==
    rcfg = <<>> /\ rblock = <<>> /\ rout = <<>> /\ rrun = NoRun /\ rres = "off"

-----------------------------------------------------------------------------
(* Bounds *)

\* MaxFaults bounds the process deaths, peer forks and backend errors of one
\* run together; MaxCrashes, MaxForks and MaxFails bound each kind

MaxSlot == 2
MaxForks == 1
MaxCrashes == 1
MaxFails == 2
MaxFaults == 2
MaxCmds == 2
MaxReplayLen == 2
MaxTakes == 1

-----------------------------------------------------------------------------
(* Text helpers: strings that are parsed are sequences of characters.      *)

HexDigits == <<"0","1","2","3","4","5","6","7","8","9","a","b","c","d","e","f">>

DecDigits == <<"0","1","2","3","4","5","6","7","8","9">>

\* hex::encode of one byte
HexByte(b) == <<HexDigits[(b \div 16) + 1], HexDigits[(b % 16) + 1]>>

RECURSIVE HexChars(_)
\* hex::encode of a byte string
HexChars(bytes) ==
    IF bytes = <<>> THEN <<>>
    ELSE HexByte(Head(bytes)) \o HexChars(Tail(bytes))

RECURSIVE DecChars(_)
\* decimal form of a natural number
DecChars(n) ==
    IF n < 10 THEN <<DecDigits[n + 1]>>
    ELSE DecChars(n \div 10) \o <<DecDigits[(n % 10) + 1]>>

\* decimal form of a signed integer
IntChars(n) == IF n < 0 THEN <<"-">> \o DecChars(0 - n) ELSE DecChars(n)

Ok(v) == [ok |-> TRUE, val |-> v]
Err(e) == [ok |-> FALSE, val |-> e]

RECURSIVE Concat(_)
\* the string made of a sequence of characters
Concat(chars) ==
    IF chars = <<>> THEN "" ELSE Head(chars) \o Concat(Tail(chars))

-----------------------------------------------------------------------------
(* model::Value and its BSON encoding *)

StringValue(s) == [t |-> "String", s |-> s]
BigIntValue(n) == [t |-> "BigInt", n |-> n]
CborValue(b) == [t |-> "Cbor", b |-> b]
JsonValue(j) == [t |-> "Json", j |-> j]

BsonString(s) == [b |-> "String", s |-> s]
BsonDocument(j) == [b |-> "Document", type |-> "json", value |-> j]

value_to_bson(value) ==
    CASE value.t = "String" -> BsonString(value.s)
      [] value.t = "BigInt" -> BsonString(Concat(IntChars(value.n)))
      [] value.t = "Cbor" -> BsonString(Concat(HexChars(value.b)))
      [] value.t = "Json" -> BsonDocument(value.j)

-----------------------------------------------------------------------------
(* Points and the cursor string *)

Origin == [kind |-> "Origin"]
Specific(slot, hash) == [kind |-> "Specific", slot |-> slot, hash |-> hash]

\* crosscut::PointArg(slot, hex hash)
PointArg(slot, hash) == [slot |-> slot, hash |-> hash]

\* PointArg::from(Point)
PointArgFrom(point) ==
    IF point.kind = "Origin" THEN PointArg(0, <<>>)
    ELSE PointArg(point.slot, HexChars(point.hash))

\* PointArg::to_string: "slot,hex-hash"
PointArgToString(arg) == DecChars(arg.slot) \o <<",">> \o arg.hash

-----------------------------------------------------------------------------
(* CRDT commands (model::CRDTCommand) *)

BlockStarting(point) == [type |-> "BlockStarting", point |-> point]
BlockFinished(point) == [type |-> "BlockFinished", point |-> point]
GrowOnlySetAdd(key, value) == [type |-> "GrowOnlySetAdd", key |-> key, value |-> value]
TwoPhaseSetAdd(key, value) == [type |-> "TwoPhaseSetAdd", key |-> key, value |-> value]
TwoPhaseSetRemove(key, value) == [type |-> "TwoPhaseSetRemove", key |-> key, value |-> value]
SetAdd(key, value) == [type |-> "SetAdd", key |-> key, value |-> value]
SetRemove(key, value) == [type |-> "SetRemove", key |-> key, value |-> value]
LastWriteWins(key, value, ts) == [type |-> "LastWriteWins", key |-> key, value |-> value, ts |-> ts]
SortedSetAdd(key, value, delta) == [type |-> "SortedSetAdd", key |-> key, value |-> value, delta |-> delta]
SortedSetRemove(key, value, delta) == [type |-> "SortedSetRemove", key |-> key, value |-> value, delta |-> delta]
AnyWriteWins(key, value) == [type |-> "AnyWriteWins", key |-> key, value |-> value]
PNCounter(key, delta) == [type |-> "PNCounter", key |-> key, delta |-> delta]

-----------------------------------------------------------------------------
(* The MongoDB collection *)

\* a document that has only its _id
EmptyDoc ==
    [values |-> <<>>, tombstones |-> <<>>, value |-> <<>>, timestamp |-> <<>>,
     scores |-> <<>>, counter |-> <<>>, point |-> <<>>]

EmptyStore == <<>>

HasDoc(st, id) == id \in DOMAIN st

\* an upsert that replaces the document instead of updating it
DocOrNew_Replace(st, id) == EmptyDoc

\* the document with this _id, as an upsert sees it
DocOrNew(st, id) == IF HasDoc(st, id) THEN st[id] ELSE EmptyDoc

PutDoc(st, id, doc) ==
    [k \in (DOMAIN st) \cup {id} |-> IF k = id THEN doc ELSE st[k]]

InSeq(x, s) == \E i \in 1..Len(s) : s[i] = x

RECURSIVE Without(_, _)
Without(s, x) ==
    IF s = <<>> THEN <<>>
    ELSE IF Head(s) = x THEN Without(Tail(s), x)
    ELSE <<Head(s)>> \o Without(Tail(s), x)

\* $push in place of $addToSet: the element is appended even when present
AddToSet_Push(field, b) ==
    IF field = <<>> THEN << <<b>> >> ELSE << Append(field[1], b) >>

\* $set in place of $addToSet: the array is replaced by the one new element
AddToSet_Replace(field, b) == << <<b>> >>

\* $addToSet on an array field: created when absent, appended when new
AddToSet(field, b) ==
    IF field = <<>> THEN << <<b>> >>
    ELSE IF InSeq(b, field[1]) THEN field
    ELSE << Append(field[1], b) >>

\* $pull on an array field: every matching element goes, absent stays absent
Pull(field, b) == IF field = <<>> THEN <<>> ELSE << Without(field[1], b) >>

\* $set in place of $inc: the field takes the delta instead of adding it
Inc_Set(field, delta) == <<delta>>

\* $inc on a numeric field: an absent field counts as 0
Inc(field, delta) == IF field = <<>> THEN <<delta>> ELSE <<field[1] + delta>>

\* a field of a document: a number, or a document with fields of its own
Num(n) == [kind |-> "num", n |-> n, fields |-> <<>>]
SubDoc(fields) == [kind |-> "doc", n |-> 0, fields |-> fields]

RECURSIVE Segments(_, _)
\* the field names of a dotted path; acc holds the name being read
Segments(chars, acc) ==
    IF chars = <<>> THEN <<Concat(acc)>>
    ELSE IF Head(chars) = "." THEN <<Concat(acc)>> \o Segments(Tail(chars), <<>>)
    ELSE Segments(Tail(chars), Append(acc, Head(chars)))

RECURSIVE NewField(_, _)
\* the value $inc creates for a path that is not there yet
NewField(path, delta) ==
    IF path = <<>> THEN Num(delta)
    ELSE SubDoc(<< <<Head(path), NewField(Tail(path), delta)>> >>)

RECURSIVE IncPath(_, _, _)
\* $inc of a path in the fields of a document: the fields after it, or the
\* write error of a path that goes through a number or ends at a document
IncPath(fields, path, delta) ==
    LET name == Head(path)
        rest == Tail(path)
        at == {i \in 1..Len(fields) : fields[i][1] = name}
    IN IF at = {} THEN Ok(Append(fields, <<name, NewField(rest, delta)>>))
       ELSE LET i == CHOOSE x \in at : TRUE
                node == fields[i][2]
            IN IF rest = <<>>
               THEN IF node.kind = "num"
                    THEN Ok([fields EXCEPT ![i] = <<name, Num(node.n + delta)>>])
                    ELSE Err("non-numeric")
               ELSE IF node.kind = "doc"
               THEN LET r == IncPath(node.fields, rest, delta) IN
                    IF r.ok THEN Ok([fields EXCEPT ![i] = <<name, SubDoc(r.val)>>])
                    ELSE r
               ELSE Err("cannot create field")

\* $inc on format!("scores.{}", member): the dots of the member are part of
\* the path, a member x.y is the field y of the document scores.x; an empty
\* field name is a write error
IncScore(scores, member, delta) ==
    LET path == Segments(member, <<>>) IN
    IF \E i \in 1..Len(path) : path[i] = "" THEN Err("empty field name")
    ELSE IncPath(scores, path, delta)

\* update_one(.., upsert(true))
Upsert(st, id, doc) == PutDoc(st, id, doc)

\* update_one(.., None): only an existing document is updated
UpdateExisting(st, id, doc) == IF HasDoc(st, id) THEN PutDoc(st, id, doc) ELSE st

\* the cursor kept under the default key whatever the configuration says
cursor_key_Default(cfg) == "_cursor"

cursor_key(cfg) == IF cfg = <<>> THEN "_cursor" ELSE cfg[1]

\* the tombstones kept in the document of the additions
TsKey_Same(key) == key

\* format!("{}.ts", key)
TsKey(key) == key \o ".ts"

\* (ts as i64) of a u64: from 2^63 on the value wraps to ts - 2^64; stamps
\* below 2^30 are told apart first, they need neither power
as_i64(ts) ==
    IF ts < 2^30 THEN ts
    ELSE IF ts < 2^63 THEN ts ELSE ts - 2^64

\* the backend answers the update of this command with a write error
\* whatever else happens: the collection stays as it is
Rejects(st, cmd) ==
    /\ cmd.type \in {"SortedSetAdd", "SortedSetRemove"}
    /\ ~IncScore(DocOrNew(st, cmd.key).scores, cmd.value, cmd.delta).ok

\* the answer work() gets for the update of msg
Answer(st, msg, reply) == IF Rejects(st, msg) THEN "refused" ELSE reply

\* the match of work(): the collection after the update of one command succeeded
ApplyCmd(cfg, st, cmd) ==
    CASE cmd.type = "BlockStarting" -> st
      [] cmd.type = "GrowOnlySetAdd" ->
            Upsert(st, cmd.key,
                [DocOrNew(st, cmd.key) EXCEPT
                    !.values = AddToSet(@, value_to_bson(cmd.value))])
      [] cmd.type = "TwoPhaseSetAdd" ->
            Upsert(st, cmd.key,
                [DocOrNew(st, cmd.key) EXCEPT
                    !.values = AddToSet(@, value_to_bson(cmd.value))])
      [] cmd.type = "TwoPhaseSetRemove" ->
            Upsert(st, TsKey(cmd.key),
                [DocOrNew(st, TsKey(cmd.key)) EXCEPT
                    !.tombstones = AddToSet(@, value_to_bson(cmd.value))])
      [] cmd.type = "SetAdd" ->
            Upsert(st, cmd.key,
                [DocOrNew(st, cmd.key) EXCEPT
                    !.values = AddToSet(@, value_to_bson(cmd.value))])
      [] cmd.type = "SetRemove" ->
            UpdateExisting(st, cmd.key,
                [DocOrNew(st, cmd.key) EXCEPT
                    !.values = Pull(@, value_to_bson(cmd.value))])
      [] cmd.type = "LastWriteWins" ->
            Upsert(st, cmd.key,
                [DocOrNew(st, cmd.key) EXCEPT
                    !.value = <<value_to_bson(cmd.value)>>,
                    !.timestamp = <<as_i64(cmd.ts)>>])
      [] cmd.type \in {"SortedSetAdd", "SortedSetRemove"} ->
            LET r == IncScore(DocOrNew(st, cmd.key).scores, cmd.value, cmd.delta)
            IN IF r.ok
               THEN Upsert(st, cmd.key, [DocOrNew(st, cmd.key) EXCEPT !.scores = r.val])
               ELSE st
      [] cmd.type = "AnyWriteWins" ->
            Upsert(st, cmd.key,
                [DocOrNew(st, cmd.key) EXCEPT
                    !.value = <<value_to_bson(cmd.value)>>])
      [] cmd.type = "PNCounter" ->
            Upsert(st, cmd.key,
                [DocOrNew(st, cmd.key) EXCEPT !.counter = Inc(@, cmd.delta)])
      [] cmd.type = "BlockFinished" ->
            Upsert(st, cursor_key(cfg),
                [DocOrNew(st, cursor_key(cfg)) EXCEPT
                    !.point = <<PointArgToString(PointArgFrom(cmd.point))>>])

-----------------------------------------------------------------------------
(* Reading the cursor back: PointArg::from_str, TryInto<Point>, last_point *)

RECURSIVE IndexOf(_, _)
\* position of the first c in chars, 0 when there is none
IndexOf(chars, c) ==
    IF chars = <<>> THEN 0
    ELSE IF Head(chars) = c THEN 1
    ELSE LET r == IndexOf(Tail(chars), c) IN IF r = 0 THEN 0 ELSE r + 1

DigitVal(table, c) == CHOOSE i \in 0..(Len(table) - 1) : table[i + 1] = c

IsDigitOf(table, c) == \E i \in 1..Len(table) : table[i] = c

HexUpper == <<"0","1","2","3","4","5","6","7","8","9","A","B","C","D","E","F">>

\* a hex digit of either case, as hex decoding takes them
IsHexChar(c) == IsDigitOf(HexDigits, c) \/ IsDigitOf(HexUpper, c)

HexVal(c) ==
    IF IsDigitOf(HexDigits, c) THEN DigitVal(HexDigits, c) ELSE DigitVal(HexUpper, c)

RECURSIVE DecValue(_, _)
DecValue(chars, acc) ==
    IF chars = <<>> THEN acc
    ELSE DecValue(Tail(chars), acc * 10 + DigitVal(DecDigits, Head(chars)))

\* str::parse::<u64>
ParseU64(chars) ==
    IF chars # <<>> /\ \A i \in 1..Len(chars) : IsDigitOf(DecDigits, chars[i])
    THEN Ok(DecValue(chars, 0))
    ELSE Err("parse")

RECURSIVE HexBytes(_)
HexBytes(chars) ==
    IF chars = <<>> THEN <<>>
    ELSE <<HexVal(chars[1]) * 16 + HexVal(chars[2])>>
            \o HexBytes(SubSeq(chars, 3, Len(chars)))

\* hex::decode
HexDecode(chars) ==
    IF Len(chars) % 2 = 0 /\ \A i \in 1..Len(chars) : IsHexChar(chars[i])
    THEN Ok(HexBytes(chars))
    ELSE Err("hex")

\* PointArg::from_str: the text before the first comma is the slot, the text
\* up to the next comma is the hash
PointArgFromStr(chars) ==
    LET c == IndexOf(chars, ",") IN
    IF c = 0 THEN Err("parse")
    ELSE LET slot == ParseU64(SubSeq(chars, 1, c - 1))
             rest == SubSeq(chars, c + 1, Len(chars))
             d == IndexOf(rest, ",")
             hash == IF d = 0 THEN rest ELSE SubSeq(rest, 1, d - 1)
         IN IF slot.ok THEN Ok(PointArg(slot.val, hash)) ELSE Err("parse")

\* TryInto<Point> for PointArg
PointArgTryInto(arg) ==
    LET h == HexDecode(arg.hash) IN
    IF h.ok THEN Ok(Specific(arg.slot, h.val)) ELSE Err("hex")

\* what the backend does with the read of the cursor: it answers, the
\* connection is refused, or find_one fails
DbOutcomes == {"up", "refused", "find_failed"}

\* a cursor record without the field point read as no cursor at all
last_point_MissingAsNone(cfg, st, db) ==
    IF db = "refused" THEN Err("StorageError")
    ELSE IF db = "find_failed" THEN Err("StorageError")
    ELSE IF ~HasDoc(st, cursor_key(cfg)) THEN Ok(<<>>)
    ELSE LET doc == st[cursor_key(cfg)] IN
         IF doc.point = <<>> THEN Ok(<<>>)
         ELSE LET arg == PointArgFromStr(doc.point[1]) IN
              IF arg.ok THEN Ok(<<arg.val>>) ELSE Err("parse")

\* Cursor::last_point: db is the backend's part in it; a refused connection
\* (Client::with_uri_str) and a failed find_one both end it with a StorageError
last_point(cfg, st, db) ==
    IF db = "refused" THEN Err("StorageError")
    ELSE IF db = "find_failed" THEN Err("StorageError")
    ELSE IF ~HasDoc(st, cursor_key(cfg)) THEN Ok(<<>>)
    ELSE LET doc == st[cursor_key(cfg)] IN
         IF doc.point = <<>> THEN Err("Invalid cursor format")
         ELSE LET arg == PointArgFromStr(doc.point[1]) IN
              IF arg.ok THEN Ok(<<arg.val>>) ELSE Err("parse")

-----------------------------------------------------------------------------
(* Upstream chain-sync peer *)

\* hash of the block that fork f made at a slot
HashOf(f, slot) == <<16 * (10 + f) + slot>>

BlockPoint(ch, slot) == Specific(slot, HashOf(ch[slot], slot))

\* does the peer's chain hold this point
Knows(ch, point) ==
    \/ point.kind = "Origin"
    \/ /\ point.kind = "Specific"
       /\ point.slot \in DOMAIN ch
       /\ point.hash = HashOf(ch[point.slot], point.slot)

RECURSIVE FirstKnown(_, _)
\* answer to find_intersect: the first listed point the peer knows, if any
FirstKnown(ch, points) ==
    IF points = <<>> THEN <<>>
    ELSE IF Knows(ch, Head(points)) THEN <<Head(points)>>
    ELSE FirstKnown(ch, Tail(points))

TipOf(ch) == IF DOMAIN ch = {} THEN Origin ELSE BlockPoint(ch, Len(ch))

FindIntersectCall(points) == [op |-> "find_intersect", points |-> points]
IntersectOriginCall == [op |-> "intersect_origin", points |-> <<>>]
IntersectTipCall == [op |-> "intersect_tip", points |-> <<>>]
RequestNextCall == [op |-> "request_next", points |-> <<>>]

-----------------------------------------------------------------------------
(* crosscut::IntersectConfig *)

IntersectOrigin == [kind |-> "Origin", points |-> <<>>]
IntersectTip == [kind |-> "Tip", points |-> <<>>]
IntersectPoint(slot, hash) == [kind |-> "Point", points |-> <<PointArg(slot, hash)>>]
IntersectFallbacks(list) == [kind |-> "Fallbacks", points |-> list]

\* IntersectConfig::get_point / get_fallbacks
ConfigPoints(ic) ==
    [i \in 1..Len(ic.points) |->
        Specific(ic.points[i].slot, HexBytes(ic.points[i].hash))]

\* the outcome of the start routine: the upstream calls it made and its return
StartOutcome(cl, res) == [calls |-> cl, result |-> res]

\* one upstream call: the peer answers it (upOk) or the call fails
Upstream(call, answer, upOk) ==
    IF upOk THEN StartOutcome(<<call>>, Ok(answer))
    ELSE StartOutcome(<<call>>, Err("ouroboros"))

\* the Some(x) arm falling back to the origin when the peer finds no point
StartFromCursor_FallbackOrigin(arg, ch, upOk) ==
    LET point == PointArgTryInto(arg) IN
    IF ~point.ok THEN StartOutcome(<<>>, Err("hex"))
    ELSE IF upOk /\ FirstKnown(ch, <<point.val>>) = <<>>
         THEN StartOutcome(<<FindIntersectCall(<<point.val>>), IntersectOriginCall>>,
                           Ok(<<Origin>>))
         ELSE Upstream(FindIntersectCall(<<point.val>>),
                       FirstKnown(ch, <<point.val>>), upOk)

\* the Some(x) arm intersecting at the origin instead of the stored point
StartFromCursor_AtOrigin(arg, ch, upOk) ==
    LET point == PointArgTryInto(arg) IN
    IF ~point.ok THEN StartOutcome(<<>>, Err("hex"))
    ELSE Upstream(FindIntersectCall(<<Origin>>), FirstKnown(ch, <<Origin>>), upOk)

\* the Some(x) arm: intersect at the stored point, return what the peer found
StartFromCursor(arg, ch, upOk) ==
    LET point == PointArgTryInto(arg) IN
    IF ~point.ok THEN StartOutcome(<<>>, Err("hex"))
    ELSE Upstream(FindIntersectCall(<<point.val>>),
                  FirstKnown(ch, <<point.val>>), upOk)

\* the fallbacks arm asking for the first fallback only
StartFromConfig_FirstFallback(ic, ch, upOk) ==
    CASE ic.kind = "Origin" -> Upstream(IntersectOriginCall, <<Origin>>, upOk)
      [] ic.kind = "Tip" -> Upstream(IntersectTipCall, <<TipOf(ch)>>, upOk)
      [] ic.kind \in {"Point", "Fallbacks"} ->
            Upstream(FindIntersectCall(<<ConfigPoints(ic)[1]>>),
                     FirstKnown(ch, <<ConfigPoints(ic)[1]>>), upOk)

\* the match on the intersect configuration
StartFromConfig(ic, ch, upOk) ==
    CASE ic.kind = "Origin" -> Upstream(IntersectOriginCall, <<Origin>>, upOk)
      [] ic.kind = "Tip" -> Upstream(IntersectTipCall, <<TipOf(ch)>>, upOk)
      [] ic.kind = "Point" ->
            Upstream(FindIntersectCall(<<ConfigPoints(ic)[1]>>),
                     FirstKnown(ch, <<ConfigPoints(ic)[1]>>), upOk)
      [] ic.kind = "Fallbacks" ->
            Upstream(FindIntersectCall(ConfigPoints(ic)),
                     FirstKnown(ch, ConfigPoints(ic)), upOk)

\* the start routine consulting the configuration before the cursor
define_chainsync_start_ConfigFirst(ic, cfg, st, ch, upOk, db) ==
    LET last == last_point(cfg, st, db) IN
    IF ic.kind # "Origin" THEN StartFromConfig(ic, ch, upOk)
    ELSE IF ~last.ok THEN StartOutcome(<<>>, Err(last.val))
    ELSE IF last.val # <<>> THEN StartFromCursor(last.val[1], ch, upOk)
    ELSE StartFromConfig(ic, ch, upOk)

\* define_chainsync_start: db is the backend's answer to the cursor read, upOk
\* says whether the peer answers the call
define_chainsync_start(ic, cfg, st, ch, upOk, db) ==
    LET last == last_point(cfg, st, db) IN
    IF ~last.ok THEN StartOutcome(<<>>, Err(last.val))
    ELSE IF last.val # <<>> THEN StartFromCursor(last.val[1], ch, upOk)
    ELSE StartFromConfig(ic, ch, upOk)

-----------------------------------------------------------------------------
(* Blocks as the Reduce stage frames them *)

\* the data commands the reducers emit for a block
BlockCommands(point) ==
    <<PNCounter("a", point.slot), GrowOnlySetAdd("b", CborValue(point.hash))>>

\* commands(B): BlockStarting, the data commands, BlockFinished
Commands(point) ==
    <<BlockStarting(point)>> \o BlockCommands(point) \o <<BlockFinished(point)>>

IsData(cmd) == cmd.type \notin {"BlockStarting", "BlockFinished"}

-----------------------------------------------------------------------------
(* The sink's work() step *)

\* TwoPhaseInputPort::recv_or_idle: the staged message if any, else the next
Recv(q, stg) == IF stg # <<>> THEN stg[1] ELSE Head(q)

AfterRecv(q, stg) == IF stg # <<>> THEN q ELSE Tail(q)

\* BlockStarting makes no backend call, so it has no write that can fail
Writes(cmd) == cmd.type # "BlockStarting"

\* what the backend does with an update: it applies it and says so ("done"),
\* it refuses it ("refused"), or it applies it and the answer that reaches
\* work() is an error ("lost")
Replies == {"done", "refused", "lost"}

\* the update reached the collection
Applied(reply) == reply # "refused"

\* work() as it would be if a failed write still committed the message
work_CommitOnFail(cfg, st, q, stg, ops, reply) ==
    LET msg == Recv(q, stg)
        ans == IF Writes(msg) THEN Answer(st, msg, reply) ELSE "done"
    IN [store |-> IF Applied(ans) THEN ApplyCmd(cfg, st, msg) ELSE st,
        queue |-> AfterRecv(q, stg), staging |-> <<>>,
        ops_count |-> IF ans = "done" THEN ops + 1 ELSE ops,
        outcome |-> "Partial"]

\* Worker::work: receive, write, count, commit; an error answer of the backend
\* returns early through or_restart, whether or not the update was applied
work(cfg, st, q, stg, ops, reply) ==
    LET msg == Recv(q, stg)
        ans == IF Writes(msg) THEN Answer(st, msg, reply) ELSE "done"
    IN IF ans = "done"
       THEN [store |-> ApplyCmd(cfg, st, msg), queue |-> AfterRecv(q, stg),
             staging |-> <<>>, ops_count |-> ops + 1, outcome |-> "Partial"]
       ELSE [store |-> IF Applied(ans) THEN ApplyCmd(cfg, st, msg) ELSE st,
             queue |-> AfterRecv(q, stg),
             staging |-> <<msg>>, ops_count |-> ops, outcome |-> "Restart"]

\* the stored cursor as a Point, when it reads back from a backend that answers
StoredCursor(cfg, st) ==
    LET cp == last_point(cfg, st, "up") IN
    IF cp.ok /\ cp.val # <<>> /\ PointArgTryInto(cp.val[1]).ok
    THEN <<PointArgTryInto(cp.val[1]).val>>
    ELSE <<>>

Count(ac, k) == IF k \in DOMAIN ac THEN ac[k] ELSE 0

Bump(ac, k) == [x \in (DOMAIN ac) \cup {k} |-> IF x = k THEN Count(ac, k) + 1 ELSE ac[x]]

\* the block a message belongs to, as the sink sees the stream
BlockOf(msg, c) == IF IsData(msg) THEN c.point ELSE <<msg.point>>

\* history of the sink after it wrote msg
CurAfter(msg, c) ==
    IF msg.type = "BlockStarting" THEN [point |-> <<msg.point>>, idx |-> 0]
    ELSE IF IsData(msg) THEN [c EXCEPT !.idx = @ + 1]
    ELSE c

CountAfter(msg, c, ac) ==
    IF IsData(msg) /\ c.point # <<>> THEN Bump(ac, <<c.point[1], c.idx + 1>>) ELSE ac

NoWork == [kind |-> "none", msg |-> <<>>, block |-> <<>>, wrote |-> FALSE, ops |-> 0]

HasInput == staging # <<>> \/ queue # <<>>

\* process deaths, peer forks and backend errors so far
Faults == crashes + forks + fails

\* a call of work() by the supervisor, up to the request to the backend:
\* recv_or_idle stages the message and update_one is sent. work() then waits
\* inside block_on while the other stages run on: the sink is "sending" until
\* the backend answers (WorkUpdate). BlockStarting calls no backend, so that
\* call of work() counts and commits in this step
Work ==
    /\ sinkState = "working"
    /\ HasInput
    /\ LET msg == Recv(queue, staging)
           r == work(config, store, queue, staging, ops_count, "done")
           sends == Writes(msg)
       IN /\ store' = IF sends THEN store ELSE r.store
          /\ queue' = r.queue
          /\ staging' = IF sends THEN <<msg>> ELSE r.staging
          /\ ops_count' = IF sends THEN ops_count ELSE r.ops_count
          /\ sinkState' = IF sends THEN "sending" ELSE "working"
          /\ cur' = IF sends THEN cur ELSE CurAfter(msg, cur)
          /\ lastWork' = [kind |-> IF sends THEN "received" ELSE "committed",
                          msg |-> <<msg>>, block |-> BlockOf(msg, cur),
                          wrote |-> FALSE, ops |-> ops_count]
          /\ hist' = IF phase = "cmd" /\ ~sends THEN Append(hist, msg) ELSE hist
          /\ prev' = IF sends THEN prev ELSE store
    /\ UNCHANGED <<config, intersect, chain, forks, srcState, srcPos, calls,
                   startResult, crashes, fails, sent, applyCount, rbMarks, phase,
                   cmds, onceStore,
                   reducerVars>>

\* the backend answers the update work() waits for. Done, the collection is
\* written and work() still has to count and commit: the sink is "writing"
\* until WorkCommit. On an error answer work() returns at once and the stage
\* is restarted; the update is applied all the same when the reply is "lost"
WorkUpdate(reply) ==
    /\ sinkState = "sending"
    /\ LET msg == staging[1]
           ans == Answer(store, msg, reply)
           r == work(config, store, queue, staging, ops_count, reply)
           ok == ans = "done"
           commits == ~ok /\ r.staging = <<>>
       IN /\ ok \/ (fails < MaxFails /\ Faults < MaxFaults)
          /\ store' = r.store
          /\ queue' = r.queue
          /\ staging' = IF ok THEN staging ELSE r.staging
          /\ ops_count' = IF ok THEN ops_count ELSE r.ops_count
          /\ sinkState' = IF ok THEN "writing"
                          ELSE IF r.outcome = "Restart" THEN "bootstrap" ELSE "working"
          /\ fails' = IF ok THEN fails ELSE fails + 1
          /\ cur' = IF commits THEN CurAfter(msg, cur) ELSE cur
          /\ applyCount' = IF Applied(ans)
                           THEN CountAfter(msg, cur, applyCount) ELSE applyCount
          /\ lastWork' = [lastWork EXCEPT
                            !.kind = IF ok THEN "written"
                                     ELSE IF commits THEN "committed" ELSE "failed",
                            !.wrote = Applied(ans)]
          /\ hist' = IF phase = "cmd" /\ (Applied(ans) \/ commits)
                     THEN Append(hist, msg) ELSE hist
          /\ prev' = IF Applied(ans) \/ commits THEN store ELSE prev
    /\ UNCHANGED <<config, intersect, chain, forks, srcState, srcPos, calls,
                   startResult, crashes, sent, rbMarks, phase, cmds, onceStore,
                   reducerVars>>

\* the rest of work() once the update has been answered: ops_count.inc(1) and
\* input.commit()
WorkCommit ==
    /\ sinkState = "writing"
    /\ ops_count' = ops_count + 1
    /\ staging' = <<>>
    /\ sinkState' = "working"
    /\ cur' = CurAfter(staging[1], cur)
    /\ lastWork' = [lastWork EXCEPT !.kind = "committed"]
    /\ UNCHANGED <<config, store, queue, intersect, chain, forks, srcState, srcPos,
                   calls, startResult, crashes, fails, sent, applyCount, rbMarks,
                   hist, prev, phase, cmds, onceStore,
                   reducerVars>>

\* Worker::bootstrap: connect and keep the collection handle
SinkBootstrap ==
    /\ sinkState = "bootstrap"
    /\ sinkState' = "working"
    /\ UNCHANGED <<config, store, queue, staging, ops_count, intersect, chain,
                   forks, srcState, srcPos, calls, startResult, crashes, fails,
                   sent, applyCount, rbMarks, hist, prev, lastWork, cur, phase,
                   cmds, onceStore,
                   reducerVars>>

-----------------------------------------------------------------------------
(* The source stage and the upstream peer *)

SlotOf(point) == IF point.kind = "Origin" THEN 0 ELSE point.slot

Streaming == srcState \in {"streaming", "rolledback"}

\* bootstrap of the source: run the start routine, stream only from a point;
\* a peer error and a backend that does not answer are retried, no
\* intersection or an unreadable cursor is fatal
SourceBootstrap(upOk, db) ==
    /\ srcState = "boot"
    /\ (upOk /\ db = "up") \/ startResult = <<>>
    /\ LET out == define_chainsync_start(intersect, config, store, chain, upOk, db) IN
       /\ calls' = out.calls
       /\ startResult' = <<out.result>>
       /\ srcState' = IF out.result.ok
                      THEN IF out.result.val # <<>> THEN "streaming" ELSE "failed"
                      ELSE IF out.calls # <<>> \/ db # "up" THEN "boot" ELSE "failed"
       /\ srcPos' = IF out.result.ok /\ out.result.val # <<>>
                    THEN SlotOf(out.result.val[1]) ELSE srcPos
    /\ UNCHANGED <<config, store, queue, staging, ops_count, sinkState, intersect,
                   chain, forks, crashes, fails, sent, applyCount, rbMarks, hist,
                   prev, lastWork, cur, phase, cmds, onceStore,
                   reducerVars>>

\* request_next answered by RollForward: the next block goes through Enrich
\* and Reduce and its framed commands enter the sink's input channel
Produce ==
    /\ Streaming
    /\ srcPos < Len(chain)
    /\ queue = <<>>
    /\ LET p == BlockPoint(chain, srcPos + 1) IN
       /\ queue' = Commands(p)
       /\ rbMarks' = IF srcState = "rolledback" THEN rbMarks \cup {p} ELSE rbMarks
    /\ srcPos' = srcPos + 1
    /\ srcState' = "streaming"
    /\ calls' = Append(calls, RequestNextCall)
    /\ UNCHANGED <<config, store, staging, ops_count, sinkState, intersect, chain,
                   forks, startResult, crashes, fails, sent, applyCount, hist,
                   prev, lastWork, cur, phase, cmds, onceStore,
                   reducerVars>>

\* the peer's chain grows by one block of its current fork
Extend ==
    /\ phase = "pipeline"
    /\ Len(chain) < MaxSlot
    /\ chain' = Append(chain, forks)
    /\ UNCHANGED <<config, store, queue, staging, ops_count, sinkState, intersect,
                   forks, srcState, srcPos, calls, startResult, crashes, fails,
                   sent, applyCount, rbMarks, hist, prev, lastWork, cur, phase,
                   cmds, onceStore,
                   reducerVars>>

\* the peer switches to a fork that leaves the chain after slot r; a streaming
\* source that is past r gets RollBack(r) as the answer to request_next
RollBack(r) ==
    /\ phase = "pipeline"
    /\ forks < MaxForks
    /\ Faults < MaxFaults
    /\ r < Len(chain)
    /\ chain' = [s \in DOMAIN chain |-> IF s > r THEN forks + 1 ELSE chain[s]]
    /\ forks' = forks + 1
    /\ IF Streaming /\ srcPos > r
       THEN /\ srcPos' = r
            /\ srcState' = "rolledback"
            /\ calls' = Append(calls, RequestNextCall)
       ELSE UNCHANGED <<srcPos, srcState, calls,
                   reducerVars>>
    /\ UNCHANGED <<config, store, queue, staging, ops_count, sinkState, intersect,
                   startResult, crashes, fails, sent, applyCount, rbMarks, hist,
                   prev, lastWork, cur, phase, cmds, onceStore,
                   reducerVars>>

\* the process dies and is started again: everything in memory is lost, the
\* collection stays. mode tells where the sink was: "idle" (outside work()),
\* "beforeWrite" (in work(), update not done: the sink was sending) or
\* "afterWrite" (update done, commit not reached: the sink was writing)
Crash(mode) ==
    /\ phase = "pipeline"
    /\ crashes < MaxCrashes
    /\ Faults < MaxFaults
    /\ mode = "idle" => sinkState \notin {"sending", "writing"}
    /\ mode = "beforeWrite" => sinkState = "sending"
    /\ mode = "afterWrite" => sinkState = "writing"
    /\ LET inWork == mode # "idle"
           msg == Recv(queue, staging)
       IN /\ store' = store
          /\ applyCount' = applyCount
          /\ lastWork' = [kind |-> "died",
                          msg |-> IF inWork THEN <<msg>> ELSE <<>>,
                          block |-> IF inWork THEN BlockOf(msg, cur) ELSE <<>>,
                          wrote |-> (mode = "afterWrite"), ops |-> 0]
    /\ crashes' = crashes + 1
    /\ fails' = fails
    /\ queue' = <<>>
    /\ staging' = <<>>
    /\ ops_count' = 0
    /\ sinkState' = "bootstrap"
    /\ srcState' = "boot"
    /\ srcPos' = 0
    /\ calls' = <<>>
    /\ startResult' = <<>>
    /\ cur' = [point |-> <<>>, idx |-> 0]
    /\ UNCHANGED <<config, intersect, chain, forks, sent, rbMarks, hist, prev,
                   phase, cmds, onceStore,
                   reducerVars>>

-----------------------------------------------------------------------------
(* The pipeline: source, reduce and sink with failures, crashes, rollbacks *)

InitCommon ==
    /\ queue = <<>>
    /\ staging = <<>>
    /\ ops_count = 0
    /\ forks = 0
    /\ srcPos = 0
    /\ calls = <<>>
    /\ startResult = <<>>
    /\ crashes = 0
    /\ fails = 0
    /\ sent = 0
    /\ applyCount = <<>>
    /\ rbMarks = {}
    /\ hist = <<>>
    /\ prev = EmptyStore
    /\ lastWork = NoWork
    /\ cur = [point |-> <<>>, idx |-> 0]
    /\ cmds = <<>>
    /\ onceStore = EmptyStore

Init ==
    /\ InitCommon
    /\ ReducerOff
    /\ phase = "pipeline"
    /\ config = <<>>
    /\ store = EmptyStore
    /\ sinkState = "bootstrap"
    /\ intersect \in {IntersectOrigin, IntersectTip}
    /\ chain = <<>>
    /\ srcState = "boot"

Next ==
    \/ SinkBootstrap
    \/ Work
    \/ \E reply \in Replies : WorkUpdate(reply)
    \/ WorkCommit
    \/ \E upOk \in BOOLEAN, db \in DbOutcomes : SourceBootstrap(upOk, db)
    \/ Produce
    \/ Extend
    \/ \E r \in 0..(MaxSlot - 1) : RollBack(r)
    \/ \E mode \in {"idle", "beforeWrite", "afterWrite"} : Crash(mode)

Spec == Init /\ [][Next]_vars

-----------------------------------------------------------------------------
(* Properties of the pipeline *)

Restarted == srcState = "streaming" /\ Len(calls) = 1

\* every data command of block p has been written at least once
AllApplied(p) ==
    \A i \in 1..Len(BlockCommands(p)) : Count(applyCount, <<p, i>>) >= 1

\* the last step of the sink wrote a command to the backend
JustWrote ==
    lastWork.kind \in {"written", "committed", "failed", "died"} /\ lastWork.wrote

\* C1: the stored cursor is the point of block p only when every data command
\* of p has been written to the backend, and no data command of p is written
\* once the cursor is at p, crashes, restarts and redelivery included
C1_CursorAfterCommands ==
    /\ LET stored == StoredCursor(config, store) IN
       stored # <<>> => AllApplied(stored[1])
    /\ (JustWrote /\ IsData(lastWork.msg[1]))
        => /\ StoredCursor(config, prev) # lastWork.block
           /\ StoredCursor(config, store) # lastWork.block

\* the cursor reached the second block after a crash and the replay of a data
\* command that had been written before the crash
C1_Witness ==
    /\ Len(chain) >= 2
    /\ StoredCursor(config, store) = <<BlockPoint(chain, 2)>>
    /\ crashes > 0
    /\ \E k \in DOMAIN applyCount : applyCount[k] >= 2
    /\ lastWork.kind = "committed"

\* C2 as stated: a message is committed only after its write succeeded; after
\* a failed write or a process death between recv and commit the message is
\* not committed, storage_ops is not incremented and the message comes again
C2_Original ==
    /\ lastWork.kind = "committed"
        => lastWork.wrote \/ ~Writes(lastWork.msg[1])
    /\ lastWork.kind = "failed"
        => staging = lastWork.msg /\ ops_count = lastWork.ops
    /\ (lastWork.kind = "died" /\ lastWork.msg # <<>> /\ Restarted)
        => srcPos < lastWork.block[1].slot

\* C3 as stated: each PNCounter delta of a block is written exactly once across
\* crashes and restarts
C3_Original ==
    \A k \in DOMAIN applyCount :
        BlockCommands(k[1])[k[2]].type = "PNCounter" => applyCount[k] = 1

\* C5: from one cursor write to the next the slot does not decrease, unless the
\* new block is the first one emitted after a RollBack
C5_CursorMonotonic ==
    (JustWrote /\ lastWork.msg[1].type = "BlockFinished"
        /\ StoredCursor(config, prev) # <<>>)
        => LET old == StoredCursor(config, prev)[1]
               new == StoredCursor(config, store)
           IN /\ new = <<lastWork.msg[1].point>>
              /\ new[1].slot >= old.slot \/ new[1] \in rbMarks

\* the cursor went from slot 2 back to slot 1 of the fork after a RollBack
C5_Witness ==
    /\ StoredCursor(config, prev) # <<>>
    /\ StoredCursor(config, store) # <<>>
    /\ StoredCursor(config, prev)[1].slot = 2
    /\ StoredCursor(config, store)[1].slot = 1
    /\ lastWork.kind = "committed"

-----------------------------------------------------------------------------
(* The sink fed with arbitrary commands *)

Keys == {"a", "a.ts"}
Values == {StringValue("7"), BigIntValue(7), StringValue("x")}
Members == {<<"x">>, <<"x", ".", "y">>}
Stamps == {1, 2}
Deltas == {-1, 1}
Points == {Specific(1, HashOf(0, 1)), Specific(2, HashOf(0, 2))}

SetCmds ==
    {GrowOnlySetAdd(k, v) : k \in Keys, v \in Values}
    \cup {TwoPhaseSetAdd(k, v) : k \in Keys, v \in Values}
    \cup {TwoPhaseSetRemove(k, v) : k \in Keys, v \in Values}
    \cup {SetAdd(k, v) : k \in Keys, v \in Values}
    \cup {SetRemove(k, v) : k \in Keys, v \in Values}

RegisterCmds ==
    UNION {{LastWriteWins(k, v, ts) : k \in Keys, v \in Values} : ts \in Stamps}
    \cup {AnyWriteWins(k, v) : k \in Keys, v \in Values}

CounterCmds ==
    {SortedSetAdd(k, m, 1) : k \in Keys, m \in Members}
    \cup {SortedSetRemove(k, m, -1) : k \in Keys, m \in Members}
    \cup {PNCounter(k, d) : k \in Keys, d \in Deltas}

FrameCmds == {BlockStarting(p) : p \in Points} \cup {BlockFinished(p) : p \in Points}

AllCmds == SetCmds \cup RegisterCmds \cup CounterCmds \cup FrameCmds

\* a command arrives on the sink's input port
Send(cmd) ==
    /\ phase = "cmd"
    /\ sent < MaxCmds
    /\ queue = <<>>
    /\ queue' = <<cmd>>
    /\ sent' = sent + 1
    /\ UNCHANGED <<config, store, staging, ops_count, sinkState, intersect, chain,
                   forks, srcState, srcPos, calls, startResult, crashes, fails,
                   applyCount, rbMarks, hist, prev, lastWork, cur, phase, cmds,
                   onceStore,
                   reducerVars>>

InitCmd ==
    /\ InitCommon
    /\ ReducerOff
    /\ phase = "cmd"
    /\ config \in {<<>>, <<"a">>, <<"a.ts">>}
    /\ store = EmptyStore
    /\ sinkState = "working"
    /\ intersect = IntersectOrigin
    /\ chain = [s \in 1..MaxSlot |-> 0]
    /\ srcState = "off"

NextCmd ==
    \/ \E cmd \in AllCmds : Send(cmd)
    \/ SinkBootstrap
    \/ Work
    \/ WorkUpdate("done")
    \/ WorkCommit

SpecCmd == InitCmd /\ [][NextCmd]_vars

-----------------------------------------------------------------------------
(* Properties of the command algebra as the sink implements it *)

Elems(field) == IF field = <<>> THEN {} ELSE {field[1][i] : i \in 1..Len(field[1])}

\* the last step of the sink wrote a command of this type, or committed it
JustApplied(type) ==
    /\ phase = "cmd"
    /\ lastWork.kind \in {"written", "committed"}
    /\ lastWork.msg[1].type = type

\* every document but id is as it was before the last write
OthersUnchanged(id) ==
    /\ DOMAIN store = (DOMAIN prev) \cup {id}
    /\ \A k \in DOMAIN prev : k # id => store[k] = prev[k]

\* C8 as stated: LastWriteWins(key, v, ts) stores v exactly when ts is at
\* least the timestamp stored at key; a smaller ts changes neither value nor
\* timestamp
C8_Original ==
    JustApplied("LastWriteWins") =>
        LET m == lastWork.msg[1]
            old == DocOrNew(prev, m.key)
            new == store[m.key]
        IN IF old.timestamp = <<>> \/ m.ts >= old.timestamp[1]
           THEN new.value = <<value_to_bson(m.value)>> /\ new.timestamp = <<m.ts>>
           ELSE new.value = old.value /\ new.timestamp = old.timestamp

\* C9 as stated: a value added by GrowOnlySetAdd(key, v) is a member of the
\* set at key after any later commands
C9_Original ==
    \A i \in 1..Len(hist) :
        hist[i].type = "GrowOnlySetAdd"
            => /\ HasDoc(store, hist[i].key)
               /\ value_to_bson(hist[i].value) \in Elems(store[hist[i].key].values)

\* a later SetRemove on the same key of a value with the same encoding
RemovedLater(i) ==
    \E j \in (i + 1)..Len(hist) :
        /\ hist[j].type = "SetRemove"
        /\ hist[j].key = hist[i].key
        /\ value_to_bson(hist[j].value) = value_to_bson(hist[i].value)

\* C9 (amended): a value added by GrowOnlySetAdd(key, v) is a member of the
\* set at key after any later commands among which no SetRemove on the same
\* key removes that value
C9_GrowOnlyKept ==
    \A i \in 1..Len(hist) :
        (hist[i].type = "GrowOnlySetAdd" /\ ~RemovedLater(i))
            => /\ HasDoc(store, hist[i].key)
               /\ value_to_bson(hist[i].value) \in Elems(store[hist[i].key].values)

\* a grow-only add followed by another write to the same set
C9_Witness ==
    /\ Len(hist) = 2
    /\ hist[1].type = "GrowOnlySetAdd"
    /\ hist[2].type \in {"GrowOnlySetAdd", "SetAdd", "TwoPhaseSetAdd", "SetRemove"}
    /\ hist[2].key = hist[1].key
    /\ value_to_bson(hist[2].value) # value_to_bson(hist[1].value)
    /\ Cardinality(Elems(store[hist[1].key].values)) >= 1

\* effective two-phase set at key: additions minus tombstones
Effective(st, key) ==
    Elems(DocOrNew(st, key).values) \ Elems(DocOrNew(st, key \o ".ts").tombstones)

\* C10: TwoPhaseSetAdd(key, v) changes only the additions at key, by adding v;
\* TwoPhaseSetRemove(key, v) changes only the tombstones at key.ts, by adding
\* v; a value that was removed is never in the effective set, whether removed
\* before or after it was added
C10_TwoPhaseSet ==
    /\ JustApplied("TwoPhaseSetAdd") =>
        LET m == lastWork.msg[1] IN
        /\ OthersUnchanged(m.key)
        /\ Elems(store[m.key].values)
             = Elems(DocOrNew(prev, m.key).values) \cup {value_to_bson(m.value)}
        /\ [store[m.key] EXCEPT !.values = <<>>]
             = [DocOrNew(prev, m.key) EXCEPT !.values = <<>>]
    /\ JustApplied("TwoPhaseSetRemove") =>
        LET m == lastWork.msg[1]
            id == m.key \o ".ts"
        IN /\ OthersUnchanged(id)
           /\ Elems(store[id].tombstones)
                = Elems(DocOrNew(prev, id).tombstones) \cup {value_to_bson(m.value)}
           /\ [store[id] EXCEPT !.tombstones = <<>>]
                = [DocOrNew(prev, id) EXCEPT !.tombstones = <<>>]
    /\ \A i \in 1..Len(hist) :
        hist[i].type = "TwoPhaseSetRemove"
            => value_to_bson(hist[i].value) \notin Effective(store, hist[i].key)

\* a value removed first and added afterwards: in the additions, not effective
C10_Witness ==
    /\ Len(hist) = 2
    /\ hist[1].type = "TwoPhaseSetRemove"
    /\ hist[2].type = "TwoPhaseSetAdd"
    /\ hist[2].key = hist[1].key
    /\ value_to_bson(hist[2].value) = value_to_bson(hist[1].value)
    /\ value_to_bson(hist[2].value) \in Elems(store[hist[2].key].values)
    /\ Effective(store, hist[2].key) = {}

\* the key the claims name: the configured one, "_cursor" by default
ConfiguredKey == IF config = <<>> THEN "_cursor" ELSE config[1]

\* the point field of the cursor record of a collection, if any
PointAt(st) ==
    IF ConfiguredKey \in DOMAIN st THEN st[ConfiguredKey].point ELSE <<>>

\* C23: only BlockFinished changes the stored cursor point: BlockStarting
\* leaves the whole collection as it was, and every data command leaves the
\* point field of the cursor record as it was, also when it writes to the
\* document of the cursor
C23_OnlyBlockFinishedMovesCursor ==
    (phase = "cmd" /\ lastWork.kind \in {"written", "committed"}) =>
        LET m == lastWork.msg[1] IN
        /\ m.type = "BlockStarting" => store = prev
        /\ m.type \notin {"BlockStarting", "BlockFinished"} =>
            PointAt(store) = PointAt(prev)
        /\ PointAt(store) # PointAt(prev) =>
            /\ m.type = "BlockFinished"
            /\ PointAt(store) = <<PointArgToString(PointArgFrom(m.point))>>

\* a data command wrote to the document that holds the cursor, after the
\* cursor was stored there
C23_Witness ==
    /\ phase = "cmd"
    /\ config # <<>>
    /\ Len(hist) = 2
    /\ hist[1].type = "BlockFinished"
    /\ hist[2].type \in {"AnyWriteWins", "TwoPhaseSetRemove", "SetRemove", "PNCounter"}
    /\ store[ConfiguredKey] # prev[ConfiguredKey]
    /\ PointAt(store) # <<>>

-----------------------------------------------------------------------------
(* Delivering the idempotent commands of a block twice *)

ReplayValues == {StringValue("7"), StringValue("x")}

\* the commands flagged idempotent, on one key
IdemCmds ==
    {GrowOnlySetAdd("a", v) : v \in ReplayValues}
    \cup {TwoPhaseSetAdd("a", v) : v \in ReplayValues}
    \cup {TwoPhaseSetRemove("a", v) : v \in ReplayValues}
    \cup UNION {{LastWriteWins("a", v, ts) : v \in ReplayValues} : ts \in Stamps}
    \cup {AnyWriteWins("a", v) : v \in ReplayValues}
    \cup {BlockFinished(p) : p \in Points}

SeqsUpTo(S, n) == UNION {[1..m -> S] : m \in 1..n}

\* the collections the replay starts from: empty, or after one command on "a"
StartStores(cfg) ==
    {EmptyStore}
    \cup {ApplyCmd(cfg, EmptyStore, c) : c \in {x \in AllCmds \ FrameCmds : x.key = "a"}}
    \cup {ApplyCmd(cfg, EmptyStore, c) : c \in FrameCmds}

\* the first pass is over: remember the collection, deliver the list again
Redeliver ==
    /\ phase = "once"
    /\ ~HasInput
    /\ onceStore' = store
    /\ queue' = cmds
    /\ phase' = "twice"
    /\ UNCHANGED <<config, store, staging, ops_count, sinkState, intersect, chain,
                   forks, srcState, srcPos, calls, startResult, crashes, fails,
                   sent, applyCount, rbMarks, hist, prev, lastWork, cur, cmds,
                   reducerVars>>

\* the second pass is over
FinishReplay ==
    /\ phase = "twice"
    /\ ~HasInput
    /\ phase' = "done"
    /\ UNCHANGED <<config, store, queue, staging, ops_count, sinkState, intersect,
                   chain, forks, srcState, srcPos, calls, startResult, crashes,
                   fails, sent, applyCount, rbMarks, hist, prev, lastWork, cur,
                   cmds, onceStore,
                   reducerVars>>

InitReplay ==
    /\ ReducerOff
    /\ ops_count = 0 /\ staging = <<>> /\ forks = 0 /\ srcPos = 0
    /\ calls = <<>> /\ startResult = <<>> /\ crashes = 0 /\ fails = 0
    /\ sent = 0 /\ applyCount = <<>> /\ rbMarks = {} /\ hist = <<>>
    /\ prev = EmptyStore /\ lastWork = NoWork
    /\ cur = [point |-> <<>>, idx |-> 0]
    /\ onceStore = EmptyStore
    /\ phase = "once"
    /\ config \in {<<>>, <<"a">>}
    /\ store \in StartStores(config)
    /\ cmds \in SeqsUpTo(IdemCmds, MaxReplayLen)
    /\ queue = cmds
    /\ sinkState = "working"
    /\ intersect = IntersectOrigin
    /\ chain = [s \in 1..MaxSlot |-> 0]
    /\ srcState = "off"

NextReplay ==
    \/ Work
    \/ WorkUpdate("done")
    \/ WorkCommit
    \/ Redeliver
    \/ FinishReplay

SpecReplay == InitReplay /\ [][NextReplay]_vars

\* C4: delivering the idempotent commands of a block a second time leaves the
\* collection as the first delivery left it, whatever it held before
C4_IdempotentReplay == phase = "done" => store = onceStore

\* two LastWriteWins on one key with decreasing timestamps, then a set add,
\* were delivered twice
C4_Witness ==
    /\ phase = "done"
    /\ Len(cmds) = 2
    /\ cmds[1].type = "LastWriteWins"
    /\ cmds[2].type \in {"LastWriteWins", "GrowOnlySetAdd"}
    /\ cmds[2].type = "LastWriteWins" => cmds[2].ts < cmds[1].ts
    /\ ops_count = 4
    /\ store # EmptyStore

-----------------------------------------------------------------------------
(* Starting chain-sync from every configuration and stored cursor *)

HexOf(f, slot) == HexChars(HashOf(f, slot))

IntersectConfigs ==
    {IntersectOrigin, IntersectTip,
     IntersectPoint(1, HexOf(0, 1)), IntersectPoint(2, HexOf(1, 2)),
     IntersectFallbacks(<<PointArg(2, HexOf(1, 2)), PointArg(1, HexOf(0, 1))>>)}

\* the peer's chain: fork 0 up to slot r, fork 1 after it
Chains == {[s \in 1..MaxSlot |-> IF s > r THEN 1 ELSE 0] : r \in 0..MaxSlot}

\* every point a block of some chain can have
ChainPoints == {Specific(s, HashOf(f, s)) : s \in 1..MaxSlot, f \in 0..1}

\* a cursor record holding this text in its point field
CursorRecord(cfg, chars) ==
    PutDoc(EmptyStore, cursor_key(cfg), [EmptyDoc EXCEPT !.point = <<chars>>])

\* what the collection may hold at startup: nothing, the cursor of a block the
\* sink finished, or a cursor record that is not one the sink writes
CursorStores(cfg) ==
    {EmptyStore}
    \cup {ApplyCmd(cfg, EmptyStore, BlockFinished(p)) : p \in Points}
    \cup {ApplyCmd(cfg, EmptyStore, AnyWriteWins(cursor_key(cfg), StringValue("x")))}
    \cup {CursorRecord(cfg, <<"x">>), CursorRecord(cfg, <<"1", ",", "z", "z">>),
          CursorRecord(cfg, <<"x", ",", "a", "1">>)}

InitStart ==
    /\ InitCommon
    /\ ReducerOff
    /\ phase = "start"
    /\ config \in {<<>>, <<"a">>}
    /\ store \in CursorStores(config)
    /\ sinkState = "working"
    /\ intersect \in IntersectConfigs
    /\ chain \in Chains
    /\ srcState = "boot"

NextStart ==
    \/ \E upOk \in BOOLEAN, db \in DbOutcomes : SourceBootstrap(upOk, db)
    \/ Produce
    \/ Work
    \/ WorkUpdate("done")
    \/ WorkCommit

SpecStart == InitStart /\ [][NextStart]_vars

\* the step is a run of the start routine
StartStep ==
    /\ srcState = "boot"
    /\ startResult' # <<>>
    /\ startResult' # startResult \/ srcState' # srcState

\* the cursor record holds the text the sink writes for point p
StoredAt(p) ==
    /\ HasDoc(store, cursor_key(config))
    /\ store[cursor_key(config)].point = <<PointArgToString(PointArgFrom(p))>>

HasRequestNext == \E i \in 1..Len(calls) : calls[i].op = "request_next"

\* what the start routine returns when the backend did not answer its read
Unread == Err("StorageError")

\* the start routine has run and the backend answered its read of the cursor
CursorRead == startResult # <<>> /\ startResult[1] # Unread

\* C6: with a stored cursor that the backend hands out, the start routine
\* makes one upstream call, find_intersect on the list holding just the stored
\* point, whatever the intersect configuration, and no request_next comes
\* before it; a read the backend does not answer ends it with no call at all
C6_CursorOverridesConfig ==
    /\ [][\A p \in ChainPoints :
            (StartStep /\ StoredAt(p)) =>
                IF startResult' = <<Unread>> THEN calls' = <<>>
                ELSE calls' = <<FindIntersectCall(<<p>>)>>]_vars
    /\ [](HasRequestNext => calls[1].op # "request_next")

\* streaming resumed from a stored cursor although the configuration names
\* another point
C6_Witness ==
    /\ StoredAt(Specific(1, HashOf(0, 1)))
    /\ intersect.kind \in {"Tip", "Fallbacks"}
    /\ calls = <<FindIntersectCall(<<Specific(1, HashOf(0, 1))>>), RequestNextCall>>
    /\ srcPos = 2

\* C7 as stated: when the peer does not know the stored cursor point the start
\* routine returns an error and the source does not stream
C7_Original ==
    \A p \in ChainPoints :
        (StoredAt(p) /\ ~Knows(chain, p) /\ CursorRead)
            => /\ ~startResult[1].ok
               /\ ~Streaming
               /\ ~HasRequestNext

\* C7 (amended): when the peer does not know the stored cursor point the start
\* routine returns success with no point, having called only find_intersect on
\* the stored point, and an error only when that call itself fails; the source
\* does not stream
C7_NoIntersection ==
    \A p \in ChainPoints :
        (StoredAt(p) /\ ~Knows(chain, p) /\ CursorRead)
            => /\ startResult[1] \in {Ok(<<>>), Err("ouroboros")}
               /\ calls = <<FindIntersectCall(<<p>>)>>
               /\ startResult[1].ok => srcState = "failed"
               /\ ~Streaming
               /\ ~HasRequestNext

\* the peer answered that the stored cursor point is not on its chain
C7_Witness ==
    /\ StoredAt(Specific(2, HashOf(0, 2)))
    /\ ~Knows(chain, Specific(2, HashOf(0, 2)))
    /\ startResult = <<Ok(<<>>)>>
    /\ srcState = "failed"

\* point texts that name no point: no comma, a hash that is not hex, a slot
\* that is not a number
MalformedTexts ==
    {<<"x">>, <<"1", ",", "z", "z">>, <<"x", ",", "a", "1">>}

\* the store the start routine reads holds a cursor record that is malformed
MalformedCursor ==
    /\ ops_count = 0
    /\ HasDoc(store, ConfiguredKey)
    /\ \/ store[ConfiguredKey].point = <<>>
       \/ store[ConfiguredKey].point[1] \in MalformedTexts

\* C13: with a malformed cursor record (no field point, or a text that does not
\* parse) the start routine returns an error and makes no upstream call: no
\* intersect, no fallback to the configuration, no streaming
C13_MalformedCursorFatal ==
    (MalformedCursor /\ startResult # <<>>) =>
        /\ ~startResult[1].ok
        /\ calls = <<>>
        /\ CursorRead => srcState = "failed" /\ startResult[1] # Err("ouroboros")
        /\ ~Streaming

\* the start routine ran on a record without the field point under a
\* configuration that names fallbacks, and on one whose hash is not hex
C13_Witness ==
    /\ MalformedCursor
    /\ CursorRead
    /\ \/ store[ConfiguredKey].point = <<>> /\ intersect.kind = "Fallbacks"
       \/ store[ConfiguredKey].point = <<<<"1", ",", "z", "z">>>>
             /\ intersect.kind = "Tip"
    /\ srcState = "failed"

\* the points a configuration names, in its order
ExpectedPoints(ic) ==
    [i \in 1..Len(ic.points) |->
        CHOOSE p \in ChainPoints : PointArgFrom(p) = ic.points[i]]

\* the one upstream call each configuration stands for
ExpectedCall(ic) ==
    CASE ic.kind = "Origin" -> IntersectOriginCall
      [] ic.kind = "Tip" -> IntersectTipCall
      [] ic.kind = "Point" -> FindIntersectCall(<<ExpectedPoints(ic)[1]>>)
      [] ic.kind = "Fallbacks" -> FindIntersectCall(ExpectedPoints(ic))

\* C14: without a stored cursor, which the read of a backend that answers
\* finds out, the start routine makes exactly one upstream call, the one the
\* intersect configuration names (intersect_origin, intersect_tip,
\* find_intersect on the one point, find_intersect on the whole fallback list
\* in its order); only request_next calls follow it
C14_ConfigChoosesCall ==
    (~HasDoc(store, ConfiguredKey) /\ CursorRead) =>
        /\ Len(calls) >= 1
        /\ calls[1] = ExpectedCall(intersect)
        /\ \A i \in 2..Len(calls) : calls[i] = RequestNextCall

\* the start routine asked for the two fallbacks in the configured order
C14_Witness ==
    /\ ~HasDoc(store, ConfiguredKey)
    /\ intersect.kind = "Fallbacks"
    /\ CursorRead
    /\ calls = <<FindIntersectCall(<<Specific(2, HashOf(1, 2)), Specific(1, HashOf(0, 1))>>)>>

-----------------------------------------------------------------------------
(* Backend errors in work(), without process deaths and rollbacks *)

\* retries the stage policy grants to bootstrap
max_retries == 20

NextFail ==
    \/ SinkBootstrap
    \/ Work
    \/ \E reply \in Replies : WorkUpdate(reply)
    \/ WorkCommit
    \/ \E upOk \in BOOLEAN, db \in DbOutcomes : SourceBootstrap(upOk, db)
    \/ Produce

InitFail ==
    /\ InitCommon
    /\ ReducerOff
    /\ phase = "pipeline"
    /\ config \in {<<>>, <<"a">>}
    /\ store = EmptyStore
    /\ sinkState = "bootstrap"
    /\ intersect \in IntersectConfigs
    /\ chain \in Chains
    /\ srcState = "boot"

SpecFail == InitFail /\ [][NextFail]_vars

\* C15 as stated: a failed write is retried in place; the stage is restarted
\* only after max_retries retries have failed
C15_Original ==
    (lastWork.kind = "failed" /\ fails <= max_retries) => sinkState = "working"

-----------------------------------------------------------------------------
(* Two data commands with different keys, delivered in both orders *)

DataCmds == AllCmds \ FrameCmds

\* what the sink holds before the pair arrives: nothing (a no-op command), or
\* the effect of one set command
SetupCmds ==
    {BlockStarting(Specific(1, HashOf(0, 1)))}
    \cup {c \in SetCmds : c.value = StringValue("x")}

\* a setup command followed by two data commands with different keys
CommuteLists ==
    {<<c0, c1, c2>> : c0 \in SetupCmds,
                      c1 \in {c \in DataCmds : c.key = "a"},
                      c2 \in {c \in DataCmds : c.key = "a.ts"}}

InitCommute ==
    /\ ReducerOff
    /\ ops_count = 0 /\ staging = <<>> /\ forks = 0 /\ srcPos = 0
    /\ calls = <<>> /\ startResult = <<>> /\ crashes = 0 /\ fails = 0
    /\ sent = 0 /\ applyCount = <<>> /\ rbMarks = {} /\ hist = <<>>
    /\ prev = EmptyStore /\ lastWork = NoWork
    /\ cur = [point |-> <<>>, idx |-> 0]
    /\ onceStore = EmptyStore
    /\ phase = "first"
    /\ config = <<>>
    /\ store = EmptyStore
    /\ cmds \in CommuteLists
    /\ queue = cmds
    /\ sinkState = "working"
    /\ intersect = IntersectOrigin
    /\ chain = [s \in 1..MaxSlot |-> 0]
    /\ srcState = "off"

\* the first order is done: remember the collection and deliver the setup
\* command and the pair in the other order to a fresh collection
Reorder ==
    /\ phase = "first"
    /\ ~HasInput
    /\ onceStore' = store
    /\ store' = EmptyStore
    /\ queue' = <<cmds[1], cmds[3], cmds[2]>>
    /\ phase' = "second"
    /\ UNCHANGED <<config, staging, ops_count, sinkState, intersect, chain,
                   forks, srcState, srcPos, calls, startResult, crashes, fails,
                   sent, applyCount, rbMarks, hist, prev, lastWork, cur, cmds,
                   reducerVars>>

\* the second order is done
FinishOrders ==
    /\ phase = "second"
    /\ ~HasInput
    /\ phase' = "compared"
    /\ UNCHANGED <<config, store, queue, staging, ops_count, sinkState, intersect,
                   chain, forks, srcState, srcPos, calls, startResult, crashes,
                   fails, sent, applyCount, rbMarks, hist, prev, lastWork, cur,
                   cmds, onceStore,
                   reducerVars>>

NextCommute ==
    \/ Work
    \/ WorkUpdate("done")
    \/ WorkCommit
    \/ Reorder
    \/ FinishOrders

SpecCommute == InitCommute /\ [][NextCommute]_vars

\* C16: two data commands with different keys leave the collection the same
\* in either order, from the same starting collection
C16_DifferentKeysCommute ==
    (phase = "compared" /\ cmds[2].key # cmds[3].key) => store = onceStore

\* a tombstone for key "a" and a set command on key "a.ts", which share the
\* document "a.ts", were applied in both orders
C16_Witness ==
    /\ phase = "compared"
    /\ cmds[2].type = "TwoPhaseSetRemove"
    /\ cmds[3].type \in {"SetAdd", "SetRemove"}
    /\ cmds[1].type = "SetAdd" /\ cmds[1].key = "a.ts"
    /\ store["a.ts"].tombstones # <<>>
    /\ ops_count = 6

-----------------------------------------------------------------------------
(* Delivering the whole command list of a block twice to a fresh sink *)

\* the points of the delivered block: two chain points and one with a slot of
\* two digits and a hash of two bytes
BlockPoints == Points \cup {Specific(10, <<0, 255>>)}

\* the data commands of the delivered block: set adds and counter deltas
BlockDataCmds ==
    {GrowOnlySetAdd(k, v) : k \in Keys, v \in Values}
    \cup {PNCounter(k, d) : k \in Keys, d \in Deltas}

\* commands(B) for every block
BlockLists ==
    {<<BlockStarting(p)>> \o d \o <<BlockFinished(p)>> :
        p \in BlockPoints, d \in SeqsUpTo(BlockDataCmds, MaxReplayLen)}

InitBlock ==
    /\ ReducerOff
    /\ ops_count = 0 /\ staging = <<>> /\ forks = 0 /\ srcPos = 0
    /\ calls = <<>> /\ startResult = <<>> /\ crashes = 0 /\ fails = 0
    /\ sent = 0 /\ applyCount = <<>> /\ rbMarks = {} /\ hist = <<>>
    /\ prev = EmptyStore /\ lastWork = NoWork
    /\ cur = [point |-> <<>>, idx |-> 0]
    /\ onceStore = EmptyStore
    /\ phase = "once"
    /\ config \in {<<>>, <<"a">>}
    /\ store = EmptyStore
    /\ cmds \in BlockLists
    /\ queue = cmds
    /\ sinkState = "working"
    /\ intersect = IntersectOrigin
    /\ chain = [s \in 1..MaxSlot |-> 0]
    /\ srcState = "off"

SpecBlock == InitBlock /\ [][NextReplay]_vars

RECURSIVE SumDeltas(_, _)
\* sum of the PNCounter deltas of a command list for one key
SumDeltas(list, key) ==
    IF list = <<>> THEN 0
    ELSE (IF Head(list).type = "PNCounter" /\ Head(list).key = key
          THEN Head(list).delta ELSE 0) + SumDeltas(Tail(list), key)

\* the stored forms of the values a command list adds to the set at key
AddedMembers(list, key) ==
    {value_to_bson(list[i].value) :
        i \in {j \in 1..Len(list) :
                list[j].type = "GrowOnlySetAdd" /\ list[j].key = key}}

HasCounter(list, key) ==
    \E i \in 1..Len(list) : list[i].type = "PNCounter" /\ list[i].key = key

NoDuplicates(field) ==
    field # <<>> => Cardinality(Elems(field)) = Len(field[1])

\* C11: after the command list of block B was delivered twice to a fresh sink
\* the stored cursor is the point of B, every set holds exactly the members B
\* adds, each once, and every counter is twice the sum of B's deltas
C11_ReplayTwice ==
    (phase = "done" /\ cmds[1].type = "BlockStarting") =>
        /\ StoredCursor(config, store) = <<cmds[1].point>>
        /\ \A k \in Keys :
            /\ Elems(DocOrNew(store, k).values) = AddedMembers(cmds, k)
            /\ NoDuplicates(DocOrNew(store, k).values)
            /\ DocOrNew(store, k).counter =
                IF HasCounter(cmds, k) THEN <<2 * SumDeltas(cmds, k)>> ELSE <<>>

\* a block with a set add and a counter delta was delivered twice
C11_Witness ==
    /\ phase = "done"
    /\ cmds[1].type = "BlockStarting"
    /\ Len(cmds) = 4
    /\ cmds[2].type = "GrowOnlySetAdd"
    /\ cmds[3] = PNCounter(cmds[2].key, 1)
    /\ store[cmds[2].key].counter = <<2>>
    /\ Len(store[cmds[2].key].values[1]) = 1
    /\ ops_count = 8

\* the text "slot,hex-hash" of each block point
CursorText(p) ==
    CASE p = Specific(1, <<161>>) -> <<"1", ",", "a", "1">>
      [] p = Specific(2, <<162>>) -> <<"2", ",", "a", "2">>
      [] p = Specific(10, <<0, 255>>) -> <<"1", "0", ",", "0", "0", "f", "f">>

\* C12: after BlockFinished(point) the record under the configured cursor key
\* holds the text "slot,hex-hash" of the point in its field point and
\* last_point, answered by the backend, reads that point back; without a
\* cursor record it returns none
C12_CursorRoundTrip ==
    /\ (phase \in {"once", "twice", "done"} /\ lastWork.kind = "committed"
            /\ lastWork.msg[1].type = "BlockFinished") =>
        LET p == lastWork.msg[1].point IN
        /\ HasDoc(store, ConfiguredKey)
        /\ store[ConfiguredKey].point = <<CursorText(p)>>
        /\ last_point(config, store, "up").ok
        /\ last_point(config, store, "up").val # <<>>
        /\ last_point(config, store, "up").val[1].slot = p.slot
        /\ PointArgTryInto(last_point(config, store, "up").val[1]) = Ok(p)
    /\ ~HasDoc(store, ConfiguredKey) => last_point(config, store, "up") = Ok(<<>>)

\* the cursor of the block with the two-digit slot was written under a
\* configured key and read back
C12_Witness ==
    /\ lastWork.kind = "committed"
    /\ lastWork.msg[1] = BlockFinished(Specific(10, <<0, 255>>))
    /\ config = <<"a">>
    /\ last_point(config, store, "up") = Ok(<<PointArg(10, <<"0", "0", "f", "f">>)>>)

-----------------------------------------------------------------------------
(* Blocks as the reducers see them *)

MaxTxs == 2

\* an address: its hex and bech32 texts and whether it carries a script
Address(hex, bech32, script) == [hex |-> hex, bech32 |-> bech32, script |-> script]

ScriptAddr1 == Address("deadbeef", "addr1dead", TRUE)
ScriptAddr2 == Address("feedface", "addr1feed", TRUE)
KeyAddr == Address("00c0ffee", "addr1cafe", FALSE)

\* the assets of one policy in an output: policy id (bytes), asset names (bytes)
PolicyAssets(policy, names) == [policy |-> policy, names |-> names]

\* a transaction output: address() is Ok(address) or an error
TxOutput(address, assets) == [address |-> address, assets |-> assets]

\* ctx.find_utxo(input).apply_policy(policy): the output, Ok(None) when the
\* policy skips a missing output, or an error
Found(utxo) == [res |-> "Found", utxo |-> <<utxo>>]
Skipped == [res |-> "Skipped", utxo |-> <<>>]
Failed == [res |-> "Failed", utxo |-> <<>>]

\* an asset of a mint: name (bytes) and signed quantity
MintAsset(name, qty) == [name |-> name, qty |-> qty]

\* a mint of a transaction: policy id (bytes) and its assets
Mint(policy, assets) == [policy |-> policy, assets |-> assets]

\* a transaction: whether the filter matches it, its inputs as the context
\* resolves them, its outputs, its mint entries and its encoded length
Tx(matches, consumes, produces, mints, len) ==
    [matches |-> matches, consumes |-> consumes, produces |-> produces,
     mints |-> mints, len |-> len]

Block(epoch, txs) == [epoch |-> epoch, txs |-> txs]

BlocksOf(txs) == {Block(42, t) : t \in SeqsUpTo(txs, MaxTxs)}

\* the variables of the sink and the source while a reducer is looked at alone
InitReducer ==
    /\ InitCommon
    /\ phase = "reduce"
    /\ config = <<>>
    /\ store = EmptyStore
    /\ sinkState = "off"
    /\ intersect = IntersectOrigin
    /\ chain = [s \in 1..MaxSlot |-> 0]
    /\ srcState = "off"
    /\ rblock = <<>>
    /\ rout = <<>>
    /\ rrun = NoRun

sinkVars == <<config, store, queue, staging, ops_count, sinkState, intersect,
              chain, forks, srcState, srcPos, calls, startResult, crashes,
              fails, sent, applyCount, rbMarks, hist, prev, lastWork, cur,
              phase, cmds, onceStore>>

\* an OutputPort: the messages sent on it, and how many more its receiver
\* takes before it is gone (none given: every message)
Port(msgs, takes) == [sent |-> msgs, takes |-> takes]

\* OutputPort::send: the message is handed over, or the send is an error
send(port, msg) ==
    IF port.takes = <<>>
    THEN [port |-> Port(Append(port.sent, msg), <<>>), res |-> "Ok"]
    ELSE IF port.takes[1] > 0
    THEN [port |-> Port(Append(port.sent, msg), <<port.takes[1] - 1>>), res |-> "Ok"]
    ELSE [port |-> port, res |-> "SendError"]

\* what the receiver of the output port can take
Takes == {<<>>} \cup {<<n>> : n \in 0..MaxTakes}

\* a reduce_block run starts: the run goes up to its first output.send, or
\* to its return when it sends nothing
StartRun(block, r) ==
    /\ rblock' = block
    /\ rout' = <<>>
    /\ rrun' = [sent |-> r.port.sent, res |-> r.res]
    /\ rres' = IF r.port.sent = <<>> THEN r.res ELSE "sending"

\* one output.send of the running reduce_block hands its message over and
\* the run goes on to its next send, or to its return
OutputSend ==
    /\ phase = "reduce"
    /\ rres = "sending"
    /\ rout' = Append(rout, rrun.sent[Len(rout) + 1])
    /\ rres' = IF Len(rout) + 1 = Len(rrun.sent) THEN rrun.res ELSE "sending"
    /\ UNCHANGED <<rcfg, rblock, rrun, sinkVars>>

\* number of entries of a list that satisfy a test
CountIn(list, Test(_)) == Cardinality({i \in 1..Len(list) : Test(list[i])})

-----------------------------------------------------------------------------
(* reducers/transaction_size_by_script.rs *)

TxSizeConfig(key_prefix, aggr_by, key_addr_type, projection) ==
    [reducer |-> "transaction_size_by_script", key_prefix |-> key_prefix,
     aggr_by |-> aggr_by, key_addr_type |-> key_addr_type,
     projection |-> projection]

\* config_key with the epoch appended whenever aggr_by is Epoch
config_key_AlwaysEpoch(cfg, address, epoch_no) ==
    IF cfg.aggr_by = <<"Epoch">>
    THEN IF cfg.key_prefix # <<>>
         THEN cfg.key_prefix[1] \o "." \o address \o "." \o Concat(DecChars(epoch_no))
         ELSE "trx_size_by_script" \o "." \o address \o "." \o Concat(DecChars(epoch_no))
    ELSE IF cfg.key_prefix # <<>>
         THEN cfg.key_prefix[1] \o "." \o address
         ELSE "trx_size_by_script" \o "." \o address

\* Reducer::config_key
config_key(cfg, address, epoch_no) ==
    IF cfg.aggr_by = <<"Epoch">>
    THEN IF cfg.key_prefix # <<>>
         THEN cfg.key_prefix[1] \o "." \o address \o "." \o Concat(DecChars(epoch_no))
         ELSE "trx_size_by_script" \o "." \o address
    ELSE IF cfg.key_prefix # <<>>
         THEN cfg.key_prefix[1] \o "." \o address
         ELSE "trx_size_by_script" \o "." \o address

\* the text of an address that goes into the key: to_hex or to_string
AddressText(cfg, addr) ==
    IF cfg.key_addr_type = <<"Hex">> THEN addr.hex ELSE addr.bech32

\* utxo.address().map_or(false, |addr| addr.has_script())
is_script_address(utxo) == utxo.address # <<>> /\ utxo.address[1].script

\* Reducer::process_outbound_txo: the set seen after one produced output
process_outbound_txo(cfg, seen, tx_output) ==
    IF ~is_script_address(tx_output) THEN seen
    ELSE seen \cup {AddressText(cfg, tx_output.address[1])}

\* Reducer::process_inbound_txo: the set seen after one input, or the error
\* of an input that the context cannot resolve
process_inbound_txo(cfg, seen, input) ==
    CASE input.res = "Failed" -> Err("panic")
      [] input.res = "Skipped" -> Ok(seen)
      [] input.res = "Found" -> Ok(process_outbound_txo(cfg, seen, input.utxo[1]))

RECURSIVE Inbound(_, _, _)
\* the loop over tx.consumes()
Inbound(cfg, seen, inputs) ==
    IF inputs = <<>> THEN Ok(seen)
    ELSE LET r == process_inbound_txo(cfg, seen, Head(inputs)) IN
         IF r.ok THEN Inbound(cfg, r.val, Tail(inputs)) ELSE r

RECURSIVE Outbound(_, _, _)
\* the loop over tx.produces()
Outbound(cfg, seen, outputs) ==
    IF outputs = <<>> THEN seen
    ELSE Outbound(cfg, process_outbound_txo(cfg, seen, Head(outputs)), Tail(outputs))

\* the orders in which a HashSet of address texts can be walked
AddressOrders ==
    {<<ScriptAddr1, ScriptAddr2>>, <<ScriptAddr2, ScriptAddr1>>}

\* seen.iter() under one of these orders
SeenInOrder(cfg, seen, order) ==
    SelectSeq([i \in 1..Len(order) |-> AddressText(cfg, order[i])],
              LAMBDA a : a \in seen)

\* the command for one address of seen
TxSizeCommand(cfg, addr, epoch_no, tx_len) ==
    IF cfg.projection = "Individual"
    THEN GrowOnlySetAdd(config_key(cfg, addr, epoch_no), Concat(DecChars(tx_len)))
    ELSE PNCounter(config_key(cfg, addr, epoch_no), tx_len)

RECURSIVE TxSizeSends(_, _, _, _, _)
\* the loop over seen.iter(): one send per address
TxSizeSends(cfg, addrs, epoch_no, tx_len, port) ==
    IF addrs = <<>> THEN [port |-> port, res |-> "Ok"]
    ELSE LET r == send(port, TxSizeCommand(cfg, Head(addrs), epoch_no, tx_len)) IN
         IF r.res = "Ok"
         THEN TxSizeSends(cfg, Tail(addrs), epoch_no, tx_len, r.port)
         ELSE r

RECURSIVE TxSizeLoop(_, _, _, _, _)
\* the loop over block.txs() from transaction i on
TxSizeLoop(cfg, block, i, orders, port) ==
    IF i > Len(block.txs) THEN [port |-> port, res |-> "Ok"]
    ELSE LET tx == block.txs[i] IN
         IF ~tx.matches THEN TxSizeLoop(cfg, block, i + 1, orders, port)
         ELSE LET inb == Inbound(cfg, {}, tx.consumes) IN
              IF ~inb.ok THEN [port |-> port, res |-> "Err"]
              ELSE LET seen == Outbound(cfg, inb.val, tx.produces)
                       addrs == SeenInOrder(cfg, seen, orders[i])
                   IN IF tx.len = 0 THEN [port |-> port, res |-> "Ok"]
                      ELSE LET r == TxSizeSends(cfg, addrs, block.epoch,
                                                tx.len, port)
                           IN IF r.res = "Ok"
                              THEN TxSizeLoop(cfg, block, i + 1, orders, r.port)
                              ELSE r

\* transaction_size_by_script Reducer::reduce_block
reduce_block_tx_size(cfg, block, orders, port) ==
    TxSizeLoop(cfg, block, 1, orders, port)

TxSizeConfigs ==
    {TxSizeConfig(p, a, t, j) : p \in {<<>>, <<"txs">>}, a \in {<<>>, <<"Epoch">>},
                                t \in {<<>>, <<"Hex">>},
                                j \in {"Individual", "Total"}}

TxSizeTxs ==
    {Tx(TRUE, c, p, <<>>, n) :
        c \in {<<Found(TxOutput(<<ScriptAddr1>>, <<>>)),
                 Found(TxOutput(<<ScriptAddr1>>, <<>>))>>,
               <<Skipped, Found(TxOutput(<<KeyAddr>>, <<>>))>>,
               <<Failed>>},
        p \in {<<TxOutput(<<ScriptAddr1>>, <<>>), TxOutput(<<ScriptAddr2>>, <<>>),
                 TxOutput(<<ScriptAddr1>>, <<>>)>>,
               <<TxOutput(<<KeyAddr>>, <<>>), TxOutput(<<>>, <<>>)>>,
               <<>>},
        n \in {0, 317}}
    \cup {Tx(FALSE, <<Found(TxOutput(<<ScriptAddr1>>, <<>>))>>,
             <<TxOutput(<<ScriptAddr2>>, <<>>)>>, <<>>, 317)}

\* reduce_block of transaction_size_by_script is called on a block
ReduceTxSize(block, orders, takes) ==
    /\ phase = "reduce"
    /\ rres = "idle"
    /\ rcfg.reducer = "transaction_size_by_script"
    /\ StartRun(block, reduce_block_tx_size(rcfg, block, orders, Port(<<>>, takes)))
    /\ UNCHANGED <<rcfg, sinkVars>>

InitTxSize ==
    /\ InitReducer
    /\ rcfg \in TxSizeConfigs
    /\ rres = "idle"

\* the blocks handed to the reducer, in one of two epochs
TxSizeBlocks ==
    {Block(e, t) : e \in {7, 42}, t \in SeqsUpTo(TxSizeTxs, MaxTxs)}

NextTxSize ==
    \/ /\ rres = "idle"
       /\ \E block \in TxSizeBlocks, orders \in [1..MaxTxs -> AddressOrders],
             takes \in Takes :
                ReduceTxSize(block, orders, takes)
    \/ OutputSend

SpecTxSize == InitTxSize /\ [][NextTxSize]_vars

\* does the transaction touch this address through a resolved input or a
\* produced output
Touches(tx, addr) ==
    \/ \E i \in 1..Len(tx.consumes) :
        tx.consumes[i].res = "Found" /\ tx.consumes[i].utxo[1].address = <<addr>>
    \/ \E i \in 1..Len(tx.produces) : tx.produces[i].address = <<addr>>

\* the transactions of the block that count for an address
CountingTxs(addr) ==
    CountIn(rblock.txs, LAMBDA tx : tx.matches /\ tx.len # 0 /\ Touches(tx, addr))

\* the commands emitted for an address
CommandsFor(addr) ==
    CountIn(rout, LAMBDA c :
        c.key = config_key(rcfg, AddressText(rcfg, addr), rblock.epoch))

\* C17 as stated: every matching transaction of non-zero length gives one
\* command per distinct script address it touches, and addresses without a
\* script give none
C17_Original ==
    rres = "Ok" =>
        /\ \A addr \in {ScriptAddr1, ScriptAddr2} :
            CommandsFor(addr) = CountingTxs(addr)
        /\ Len(rout) = CountingTxs(ScriptAddr1) + CountingTxs(ScriptAddr2)

\* the number of distinct script addresses a transaction touches
ScriptAddressesOf(tx) ==
    Cardinality({addr \in {ScriptAddr1, ScriptAddr2} : Touches(tx, addr)})

\* the commands due to the transactions of the block from the i-th on
RECURSIVE DueFrom(_)
DueFrom(i) ==
    IF i > Len(rblock.txs) THEN 0
    ELSE (IF rblock.txs[i].matches /\ rblock.txs[i].len # 0
          THEN ScriptAddressesOf(rblock.txs[i]) ELSE 0) + DueFrom(i + 1)

\* the block holds a matching transaction of encoded length zero
HasZeroLength ==
    \E i \in 1..Len(rblock.txs) : rblock.txs[i].matches /\ rblock.txs[i].len = 0

\* C21 as stated: a transaction of encoded length zero emits no command and
\* reduce_block goes on with the later transactions of the block, which emit
\* their commands as usual
C21_Original ==
    (rres = "Ok" /\ HasZeroLength) =>
        /\ \A i \in 1..Len(rblock.txs) :
            rblock.txs[i].matches => ~InSeq(Failed, rblock.txs[i].consumes)
        /\ Len(rout) = DueFrom(1)
        /\ \A k \in 1..Len(rout) :
            IF rout[k].type = "PNCounter" THEN rout[k].delta # 0
            ELSE rout[k].value # "0"

\* the key the claim composes for the address text a
ClaimedKey(a) ==
    LET e == IF rblock.epoch = 7 THEN "7" ELSE "42" IN
    CASE rcfg.aggr_by = <<"Epoch">> /\ rcfg.key_prefix = <<"txs">> ->
            "txs." \o a \o "." \o e
      [] rcfg.aggr_by = <<"Epoch">> /\ rcfg.key_prefix = <<>> ->
            "trx_size_by_script." \o a
      [] rcfg.aggr_by = <<>> /\ rcfg.key_prefix = <<"txs">> -> "txs." \o a
      [] rcfg.aggr_by = <<>> /\ rcfg.key_prefix = <<>> -> "trx_size_by_script." \o a

\* the command the claim gives for a transaction of 317 bytes at address a
ClaimedCommand(a) ==
    IF rcfg.projection = "Individual"
    THEN GrowOnlySetAdd(ClaimedKey(a), "317")
    ELSE PNCounter(ClaimedKey(a), 317)

\* C22: every command of transaction_size_by_script has the key prefix.a.e with
\* aggr_by = Epoch and a prefix, trx_size_by_script.a with aggr_by = Epoch and
\* no prefix, prefix.a or trx_size_by_script.a without aggregation, and is
\* GrowOnlySetAdd(key, decimal tx_len) for Individual, PNCounter(key, tx_len)
\* for Total
C22_KeyComposition ==
    (phase = "reduce" /\ rcfg.reducer = "transaction_size_by_script") =>
        \A k \in 1..Len(rout) :
            \E addr \in {ScriptAddr1, ScriptAddr2} :
                rout[k] = ClaimedCommand(AddressText(rcfg, addr))

\* a block of epoch 42 with one transaction of 317 bytes touching two script
\* addresses was reduced with aggr_by = Epoch, hex addresses and prefix "txs"
C22_Witness ==
    /\ rres = "Ok"
    /\ rcfg = TxSizeConfig(<<"txs">>, <<"Epoch">>, <<"Hex">>, "Individual")
    /\ Len(rblock.txs) = 1
    /\ rout = <<GrowOnlySetAdd("txs.deadbeef.42", "317"),
                GrowOnlySetAdd("txs.feedface.42", "317")>>

-----------------------------------------------------------------------------
(* reducers/supply_by_asset.rs *)

\* the bytes of a Hash<28>
HashLen == 28

Repeat(x, n) == [i \in 1..n |-> x]

PolicyA == Repeat(170, HashLen)
PolicyB == Repeat(187, HashLen)

NameNFT == <<78, 70, 84>>
NameHigh == <<255>>
NameAccent == <<195, 169>>
NameEmpty == <<>>

SupplyConfig(key_prefix, policy_ids_hex) ==
    [reducer |-> "supply_by_asset", key_prefix |-> key_prefix,
     policy_ids_hex |-> policy_ids_hex]

\* Hash::<28>::from_str: exactly 56 hex digits of either case
HashFromStr(chars) ==
    IF Len(chars) = 2 * HashLen /\ \A i \in 1..Len(chars) : IsHexChar(chars[i])
    THEN Ok(HexBytes(chars))
    ELSE Err("invalid policy_id")

\* Config::plugin: the whitelist as hashes, Hash::from_str of each entry;
\* an entry that is not a hash makes plugin panic
policy_ids(cfg) ==
    IF cfg.policy_ids_hex = <<>> THEN Ok(<<>>)
    ELSE LET pids == cfg.policy_ids_hex[1]
             hs == [i \in 1..Len(pids) |-> HashFromStr(pids[i])]
         IN IF \A i \in 1..Len(pids) : hs[i].ok
            THEN Ok(<<[i \in 1..Len(pids) |-> hs[i].val]>>)
            ELSE Err("invalid policy_id")

\* Reducer::is_policy_id_accepted
is_policy_id_accepted(cfg, policy_id) ==
    LET pids == policy_ids(cfg).val IN
    IF pids # <<>> THEN InSeq(policy_id, pids[1]) ELSE TRUE

\* process_asset counting the magnitude of the quantity
process_asset_Unsigned(cfg, policy, asset, qty, port) ==
    IF ~is_policy_id_accepted(cfg, policy) THEN [port |-> port, res |-> "Ok"]
    ELSE LET asset_id == Concat(HexChars(policy)) \o Concat(HexChars(asset))
             key == IF cfg.key_prefix # <<>>
                    THEN cfg.key_prefix[1] \o "." \o asset_id
                    ELSE "supply_by_asset" \o "." \o asset_id
         IN send(port, PNCounter(key, IF qty < 0 THEN 0 - qty ELSE qty))

\* Reducer::process_asset: the port after it and what it returned
process_asset(cfg, policy, asset, qty, port) ==
    IF ~is_policy_id_accepted(cfg, policy) THEN [port |-> port, res |-> "Ok"]
    ELSE LET asset_id == Concat(HexChars(policy)) \o Concat(HexChars(asset))
             key == IF cfg.key_prefix # <<>>
                    THEN cfg.key_prefix[1] \o "." \o asset_id
                    ELSE "supply_by_asset" \o "." \o asset_id
         IN send(port, PNCounter(key, qty))

RECURSIVE SupplyAssets(_, _, _, _)
\* the loop over mint.assets()
SupplyAssets(cfg, policy, assets, port) ==
    IF assets = <<>> THEN [port |-> port, res |-> "Ok"]
    ELSE LET r == process_asset(cfg, policy, Head(assets).name,
                                Head(assets).qty, port)
         IN IF r.res = "Ok" THEN SupplyAssets(cfg, policy, Tail(assets), r.port)
            ELSE r

RECURSIVE SupplyMints(_, _, _)
\* the loop over tx.mints()
SupplyMints(cfg, mints, port) ==
    IF mints = <<>> THEN [port |-> port, res |-> "Ok"]
    ELSE LET r == SupplyAssets(cfg, Head(mints).policy, Head(mints).assets, port)
         IN IF r.res = "Ok" THEN SupplyMints(cfg, Tail(mints), r.port) ELSE r

RECURSIVE SupplyTxsLoop(_, _, _)
\* the loop over block.txs()
SupplyTxsLoop(cfg, txs, port) ==
    IF txs = <<>> THEN [port |-> port, res |-> "Ok"]
    ELSE LET r == SupplyMints(cfg, Head(txs).mints, port)
         IN IF r.res = "Ok" THEN SupplyTxsLoop(cfg, Tail(txs), r.port) ELSE r

\* supply_by_asset Reducer::reduce_block
reduce_block_supply(cfg, block, port) == SupplyTxsLoop(cfg, block.txs, port)

\* whitelist entries: two policies, one of them also in upper case, and two
\* texts that are not a hash
HexA == Repeat("a", 2 * HashLen)
HexB == Repeat("b", 2 * HashLen)
HexUpperA == Repeat("A", 2 * HashLen)
HexShort == <<"a", "a">>
HexNoDigits == Repeat("z", 2 * HashLen)

SupplyConfigs ==
    {SupplyConfig(p, w) :
        p \in {<<>>, <<"sup">>},
        w \in {<<>>, <<<<>>>>, <<<<HexA>>>>, <<<<HexB, HexA>>>>, <<<<HexUpperA>>>>,
               <<<<HexShort>>>>, <<<<HexB, HexNoDigits>>>>}}

SupplyTxs ==
    {Tx(TRUE, <<>>, <<>>, m, 317) :
        m \in {<<>>,
               <<Mint(PolicyA, <<MintAsset(NameNFT, 3), MintAsset(NameHigh, -5)>>)>>,
               <<Mint(PolicyB, <<MintAsset(NameNFT, -5)>>),
                 Mint(PolicyA, <<MintAsset(NameEmpty, 3)>>)>>,
               <<Mint(PolicyA, <<MintAsset(NameNFT, -5)>>)>>}}

\* reduce_block of supply_by_asset is called on a block
ReduceSupply(block, takes) ==
    /\ phase = "reduce"
    /\ rres = "idle"
    /\ rcfg.reducer = "supply_by_asset"
    /\ StartRun(block, reduce_block_supply(rcfg, block, Port(<<>>, takes)))
    /\ UNCHANGED <<rcfg, sinkVars>>

InitSupply ==
    /\ InitReducer
    /\ rcfg \in SupplyConfigs
    /\ rres = IF policy_ids(rcfg).ok THEN "idle" ELSE "panic"

NextSupply ==
    \/ \E block \in BlocksOf(SupplyTxs), takes \in Takes : ReduceSupply(block, takes)
    \/ OutputSend

SpecSupply == InitSupply /\ [][NextSupply]_vars

\* the hex texts of the policies and asset names, written out
PolicyHex(policy) ==
    CASE policy = PolicyA -> "aaaaaaaaaaaaaaaaaaaaaaaaaaaaaaaaaaaaaaaaaaaaaaaaaaaaaaaa"
      [] policy = PolicyB -> "bbbbbbbbbbbbbbbbbbbbbbbbbbbbbbbbbbbbbbbbbbbbbbbbbbbbbbbb"

NameHex(name) ==
    CASE name = NameNFT -> "4e4654" [] name = NameHigh -> "ff"
      [] name = NameAccent -> "c3a9" [] name = NameEmpty -> ""

\* the policy passes the whitelist, or none is configured
Whitelisted(policy) ==
    \/ rcfg.policy_ids_hex = <<>>
    \/ \E i \in 1..Len(rcfg.policy_ids_hex[1]) :
        LET text == Concat(rcfg.policy_ids_hex[1][i]) IN
        \/ text = PolicyHex(policy)
        \/ /\ policy = PolicyA
           /\ text = "AAAAAAAAAAAAAAAAAAAAAAAAAAAAAAAAAAAAAAAAAAAAAAAAAAAAAAAA"

\* the mint entries of the block in order: (policy, name, quantity)
MintEntries ==
    LET OfMint(m) == [i \in 1..Len(m.assets) |->
                        <<m.policy, m.assets[i].name, m.assets[i].qty>>]
        RECURSIVE OfMints(_)
        OfMints(ms) == IF ms = <<>> THEN <<>>
                       ELSE OfMint(Head(ms)) \o OfMints(Tail(ms))
        RECURSIVE OfTxs(_)
        OfTxs(ts) == IF ts = <<>> THEN <<>>
                     ELSE OfMints(Head(ts).mints) \o OfTxs(Tail(ts))
    IN OfTxs(rblock.txs)

\* C18: reduce_block of supply_by_asset emits, for every mint entry whose
\* policy passes the whitelist (or when none is configured), one PNCounter
\* keyed prefix.policy-hex asset-name-hex (prefix "supply_by_asset" by default)
\* whose delta is the signed mint quantity, and nothing for other policies
C18_SupplyPerMint ==
    (rres = "Ok" /\ rcfg.reducer = "supply_by_asset") =>
        LET kept == SelectSeq(MintEntries, LAMBDA e : Whitelisted(e[1]))
            prefix == IF rcfg.key_prefix = <<>> THEN "supply_by_asset"
                      ELSE rcfg.key_prefix[1]
        IN /\ Len(rout) = Len(kept)
           /\ \A i \in 1..Len(kept) :
                rout[i] = PNCounter(prefix \o "." \o PolicyHex(kept[i][1])
                                        \o NameHex(kept[i][2]), kept[i][3])

\* a burn under a whitelisted policy and a mint under a policy outside the
\* whitelist were reduced
C18_Witness ==
    /\ rres = "Ok"
    /\ rcfg = SupplyConfig(<<>>, <<<<HexA>>>>)
    /\ Len(rblock.txs) = 2
    /\ rblock.txs[1].mints = <<Mint(PolicyA, <<MintAsset(NameNFT, 3), MintAsset(NameHigh, -5)>>)>>
    /\ rblock.txs[2].mints = <<Mint(PolicyB, <<MintAsset(NameNFT, -5)>>),
                               Mint(PolicyA, <<MintAsset(NameEmpty, 3)>>)>>
    /\ rout = <<PNCounter("supply_by_asset.aaaaaaaaaaaaaaaaaaaaaaaaaaaaaaaaaaaaaaaaaaaaaaaaaaaaaaaa4e4654", 3),
                PNCounter("supply_by_asset.aaaaaaaaaaaaaaaaaaaaaaaaaaaaaaaaaaaaaaaaaaaaaaaaaaaaaaaaff", -5),
                PNCounter("supply_by_asset.aaaaaaaaaaaaaaaaaaaaaaaaaaaaaaaaaaaaaaaaaaaaaaaaaaaaaaaa", 3)>>

-----------------------------------------------------------------------------
(* reducers/address_by_asset.rs *)

AddressByAssetConfig(key_prefix, policy_id_hex, convert_to_ascii) ==
    [reducer |-> "address_by_asset", key_prefix |-> key_prefix,
     policy_id_hex |-> policy_id_hex, convert_to_ascii |-> convert_to_ascii]

\* Config::plugin: convert_to_ascii.unwrap_or(false)
convert_to_ascii(cfg) ==
    IF cfg.convert_to_ascii = <<>> THEN FALSE ELSE cfg.convert_to_ascii[1]

\* the characters the asset names are made of, by their UTF-8 bytes
CharOf(bytes) ==
    CASE bytes = <<70>> -> "F" [] bytes = <<78>> -> "N" [] bytes = <<84>> -> "T"
      [] bytes = <<195, 169>> -> "é"

\* the length of the UTF-8 sequence the bytes start with, 0 when they start
\* with none: overlong forms, surrogates and code points above U+10FFFF are
\* not UTF-8
Utf8Len(bytes) ==
    LET b == bytes[1]
        Cont(i) == Len(bytes) >= i /\ bytes[i] >= 128 /\ bytes[i] <= 191
        Second(lo, hi) == Len(bytes) >= 2 /\ bytes[2] >= lo /\ bytes[2] <= hi
    IN IF b < 128 THEN 1
       ELSE IF b >= 194 /\ b <= 223 THEN (IF Cont(2) THEN 2 ELSE 0)
       ELSE IF b = 224 THEN (IF Second(160, 191) /\ Cont(3) THEN 3 ELSE 0)
       ELSE IF b = 237 THEN (IF Second(128, 159) /\ Cont(3) THEN 3 ELSE 0)
       ELSE IF b >= 225 /\ b <= 239
            THEN (IF Cont(2) /\ Cont(3) THEN 3 ELSE 0)
       ELSE IF b = 240
            THEN (IF Second(144, 191) /\ Cont(3) /\ Cont(4) THEN 4 ELSE 0)
       ELSE IF b = 244
            THEN (IF Second(128, 143) /\ Cont(3) /\ Cont(4) THEN 4 ELSE 0)
       ELSE IF b >= 241 /\ b <= 243
            THEN (IF Cont(2) /\ Cont(3) /\ Cont(4) THEN 4 ELSE 0)
       ELSE 0

RECURSIVE from_utf8(_)
\* String::from_utf8: the characters of the bytes, an error when the bytes
\* are not UTF-8
from_utf8(bytes) ==
    IF bytes = <<>> THEN Ok(<<>>)
    ELSE LET n == Utf8Len(bytes) IN
         IF n = 0 THEN Err("utf8")
         ELSE LET rest == from_utf8(SubSeq(bytes, n + 1, Len(bytes))) IN
              IF rest.ok THEN Ok(<<CharOf(SubSeq(bytes, 1, n))>> \o rest.val)
              ELSE rest

\* MultiEraAsset::to_ascii_name: String::from_utf8(name).ok(), the name as
\* text when its bytes are UTF-8, ASCII or not
to_ascii_name(name) ==
    LET r == from_utf8(name) IN IF r.ok THEN <<Concat(r.val)>> ELSE <<>>

\* Reducer::to_string_output
to_string_output(cfg, policy, name) ==
    IF Concat(HexChars(policy)) = cfg.policy_id_hex
    THEN IF convert_to_ascii(cfg) THEN to_ascii_name(name)
         ELSE <<Concat(HexChars(name))>>
    ELSE <<>>

RECURSIVE NamesOfPolicy(_, _, _)
\* the names to_string_output keeps of the assets of one policy
NamesOfPolicy(cfg, policy, names) ==
    IF names = <<>> THEN <<>>
    ELSE to_string_output(cfg, policy, Head(names))
            \o NamesOfPolicy(cfg, policy, Tail(names))

RECURSIVE asset_names(_, _)
\* the flattened asset_names of an output
asset_names(cfg, assets) ==
    IF assets = <<>> THEN <<>>
    ELSE NamesOfPolicy(cfg, Head(assets).policy, Head(assets).names)
            \o asset_names(cfg, Tail(assets))

\* CRDTCommand::any_write_wins(prefix, key, value)
any_write_wins(prefix, key, value) ==
    AnyWriteWins(IF prefix # <<>> THEN prefix[1] \o "." \o key ELSE key,
                 StringValue(value))

RECURSIVE AddressSends(_, _, _, _)
\* the loop over asset_names: one send per name
AddressSends(cfg, names, address, port) ==
    IF names = <<>> THEN [port |-> port, res |-> "Ok"]
    ELSE LET r == send(port, any_write_wins(cfg.key_prefix, Head(names), address))
         IN IF r.res = "Ok" THEN AddressSends(cfg, Tail(names), address, r.port)
            ELSE r

\* Reducer::process_txo: the port after it and what it returned
process_txo(cfg, txo, port) ==
    LET names == asset_names(cfg, txo.assets) IN
    IF names = <<>> THEN [port |-> port, res |-> "Ok"]
    ELSE IF txo.address = <<>> THEN [port |-> port, res |-> "Err"]
    ELSE AddressSends(cfg, names, txo.address[1].bech32, port)

RECURSIVE AddressTxos(_, _, _)
\* the loop over the produced outputs of all transactions, in block order
AddressTxos(cfg, txos, port) ==
    IF txos = <<>> THEN [port |-> port, res |-> "Ok"]
    ELSE LET r == process_txo(cfg, Head(txos), port) IN
         IF r.res = "Ok" THEN AddressTxos(cfg, Tail(txos), r.port) ELSE r

RECURSIVE Produced(_)
\* tx.produces() of every transaction of the block, in order
Produced(txs) ==
    IF txs = <<>> THEN <<>> ELSE Head(txs).produces \o Produced(Tail(txs))

\* address_by_asset Reducer::reduce_block
reduce_block_address(cfg, block, port) ==
    AddressTxos(cfg, Produced(block.txs), port)

AddressByAssetConfigs ==
    {AddressByAssetConfig(p, PolicyHex(PolicyA), c) :
        p \in {<<>>, <<"abx">>}, c \in {<<>>, <<TRUE>>, <<FALSE>>}}

AddressTxs ==
    {Tx(TRUE, <<>>, <<TxOutput(a, s)>>, <<>>, 317) :
        a \in {<<KeyAddr>>, <<>>},
        s \in {<<>>,
               <<PolicyAssets(PolicyB, <<NameNFT>>)>>,
               <<PolicyAssets(PolicyA, <<NameNFT>>)>>,
               <<PolicyAssets(PolicyA, <<NameHigh>>)>>,
               <<PolicyAssets(PolicyA, <<NameAccent>>)>>,
               <<PolicyAssets(PolicyB, <<NameHigh>>),
                 PolicyAssets(PolicyA, <<NameNFT, NameHigh>>)>>}}

\* reduce_block of address_by_asset is called on a block
ReduceAddress(block, takes) ==
    /\ phase = "reduce"
    /\ rres = "idle"
    /\ rcfg.reducer = "address_by_asset"
    /\ StartRun(block, reduce_block_address(rcfg, block, Port(<<>>, takes)))
    /\ UNCHANGED <<rcfg, sinkVars>>

InitAddress ==
    /\ InitReducer
    /\ rcfg \in AddressByAssetConfigs
    /\ rres = "idle"

NextAddress ==
    \/ \E block \in BlocksOf(AddressTxs), takes \in Takes : ReduceAddress(block, takes)
    \/ OutputSend

SpecAddress == InitAddress /\ [][NextAddress]_vars

\* the produced outputs of the block, in order
ProducedOutputs == Produced(rblock.txs)

\* the names of the assets of an output whose policy is the configured one
MatchingNamesOf(txo) ==
    LET RECURSIVE Of(_)
        Of(assets) ==
            IF assets = <<>> THEN <<>>
            ELSE (IF PolicyHex(Head(assets).policy) = rcfg.policy_id_hex
                  THEN Head(assets).names ELSE <<>>) \o Of(Tail(assets))
    IN Of(txo.assets)

\* the names of the matching assets of a list of outputs, in order
RECURSIVE MatchingNames(_)
MatchingNames(txos) ==
    IF txos = <<>> THEN <<>>
    ELSE MatchingNamesOf(Head(txos)) \o MatchingNames(Tail(txos))

\* the key discriminator the claim gives an asset name: its ASCII form when
\* convert_to_ascii is set and the name is ASCII, its lowercase hex otherwise
Discriminator(name) ==
    IF rcfg.convert_to_ascii = <<TRUE>> /\ name = NameNFT THEN "NFT"
    ELSE NameHex(name)

\* C19 as stated: every asset of the configured policy in a produced output
\* gives one AnyWriteWins keyed by the ASCII form of its name when
\* convert_to_ascii is set and the name is ASCII, and by its hex otherwise,
\* a name that is not ASCII under convert_to_ascii included
C19_Original ==
    rres = "Ok" =>
        LET names == MatchingNames(ProducedOutputs) IN
        /\ Len(rout) = Len(names)
        /\ \A i \in 1..Len(names) :
            /\ rout[i].type = "AnyWriteWins"
            /\ rout[i].key = IF rcfg.key_prefix = <<>> THEN Discriminator(names[i])
                             ELSE rcfg.key_prefix[1] \o "." \o Discriminator(names[i])

\* the output has a matching asset and an address that does not resolve
Unresolvable(txo) == MatchingNamesOf(txo) # <<>> /\ txo.address = <<>>

\* C20 as stated: outputs without a matching asset emit nothing and never make
\* reduce_block fail, whatever their address; an output with a matching asset
\* and an unresolvable address makes reduce_block fail, and nothing is emitted
\* for it
C20_Original ==
    rres \in {"Ok", "Err"} =>
        LET txos == ProducedOutputs
            bad == {i \in 1..Len(txos) : Unresolvable(txos[i])}
        IN /\ (bad = {}) => rres = "Ok"
           /\ (\A i \in 1..Len(txos) : MatchingNamesOf(txos[i]) = <<>>) => rout = <<>>
           /\ (bad # {}) =>
                LET first == CHOOSE i \in bad : \A j \in bad : i <= j IN
                /\ rres = "Err"
                /\ Len(rout) <= Len(MatchingNames(SubSeq(txos, 1, first - 1)))

====
